---------------------------- MODULE Spec2Model ----------------------------
(***************************************************************************)
(* Model of the LabkafeEquipmentAI matching engine.                        *)
(*                                                                         *)
(*   Spec        the ingestion run of scripts/generate_vectors.py: main,   *)
(*               the thread pool, process_batch_worker and update_vector.  *)
(*   SpecEmbed   api/matcher.py generate_embeddings_batch, chunk by chunk. *)
(*   SpecSearch  api/database.py: the in-memory snapshot, search_vectors   *)
(*               and search_vectors_batch.                                 *)
(*   SpecBuild   scripts/load_vectors_to_memory.py: the rebuild of the     *)
(*               cache file, and the API's load of it at startup.          *)
(*   SpecScore   api/matcher.py: calls of calculate_hybrid_score.          *)
(*   SpecSuggest api/routes.py: a /suggest request, after the startup.     *)
(*   SpecGet     api/matcher.py: calls of get_suggestions with their item  *)
(*               lookups.                                                  *)
(*   SpecLive    the ingestion run of up to LiveItems items under weak     *)
(*               fairness of main and of every worker, for termination.    *)
(*                                                                         *)
(* Each specification holds the groups of variables it does not use at     *)
(* their initial value.                                                    *)
(***************************************************************************)
EXTENDS Integers, Sequences, FiniteSets, TLC

VARIABLES
    \* ---- scripts/generate_vectors.py ----
    mainPc,           \* position of main()
    failCause,        \* why main raised ("none" while it has not)
    items,            \* the fetched items, in fetch order (ORDER BY sku)
    batches,          \* the list built at lines 283-287
    submitted,        \* how many batches have been handed to executor.submit
    handled,          \* futures main has taken from as_completed
    completed,        \* main's local `completed`
    success_counter,  \* success_counter['count']
    failed_counter,   \* failed_counter['count']
    lock,             \* holder of `lock` (0: free)
    w,                \* per batch: the state of its process_batch_worker call
    persisted,        \* items whose name_vector is committed in the database
    mainConn,         \* main's connection: "none", "open", "closed"
    \* ---- api/matcher.py generate_embeddings_batch ----
    epc,              \* "start", "loop", "returned", "raised"
    texts,            \* the argument
    ei,               \* loop variable i (0-based start of the next chunk)
    all_embeddings,   \* the result list under construction
    requests,         \* the chunks posted so far, each a sequence of texts
    chunkLog,         \* per request: "ok" or "failed"
    \* ---- api/database.py ----
    apiPhase,         \* "startup" (lifespan before its yield) or "serving"
    vectors_cache,    \* _vectors_cache: <<>> for None, or <<rows>>
    item_skus,        \* _item_skus: <<>> for None, or <<skus>>
    item_names,       \* _item_names: <<>> for None, or <<names>>
    item_sku_to_index,\* _item_sku_to_index: <<>> for None, or <<mapping>>
    tiePri,           \* the build's order among equal keys in np.argsort
    query_vectors,    \* the queries of the request at hand
    top_k,            \* its top_k
    single,           \* per query: what search_vectors gave for it
    batch,            \* what search_vectors_batch gave for the request
    loadResult,       \* how load_vectors_to_memory ended: "none", "returned", "raised"
    \* ---- scripts/load_vectors_to_memory.py ----
    cacheFile,        \* the file at VECTORS_CACHE_PATH
    rebuild,          \* run_rebuild_cache: "idle", "loop", "done", "raised"
    rows,             \* what the SELECT of lines 40-51 fetched
    ri,               \* rows of `rows` the loop of line 61 has passed
    skus_list,        \* load_items_and_vectors' local item_skus
    names_list,       \* its local item_names
    vectors_list,     \* its local vectors_list
    loadCacheResult,  \* what load_cache gave
    \* ---- api/matcher.py scoring and api/routes.py /suggest ----
    spc,              \* "idle", "called" (a matcher call was made), or the
                      \* handler's position: "search", "items", "responded"
    historical_mappings, \* what get_all_historical_mappings gave
    vector_results,   \* the vector results the scoring worked with
    h_top_k,          \* top_k of the scoring call
    embedding,        \* the embedding step: "unused", "ok", "failed"
    hybrid,           \* what the last matcher call gave
    req_embeddings,   \* the handler's all_embeddings: per item "ok" or "none"
    hi,               \* items the loop of routes.py line 181 has passed
    response,         \* the handler's HTTP status (0: none yet)
    batch_vector_results,    \* the handler's batch_vector_results (line 164)
    vector_results_per_item, \* its vector_results_per_item (lines 168-175)
    suggestions_dict, \* its suggestions_dict: item_id -> the item stored there
    item_lookup       \* how get_suggestions' item lookups went (lines 236-240)

ingestVars == <<mainPc, failCause, items, batches, submitted, handled, completed,
                success_counter, failed_counter, lock, w, persisted, mainConn>>
embedVars  == <<epc, texts, ei, all_embeddings, requests, chunkLog>>
searchVars == <<apiPhase, vectors_cache, item_skus, item_names, item_sku_to_index,
                tiePri, query_vectors, top_k, single, batch, loadResult>>
buildVars  == <<cacheFile, rebuild, rows, ri, skus_list, names_list, vectors_list,
                loadCacheResult>>
scoreVars  == <<spc, historical_mappings, vector_results, h_top_k, embedding,
                hybrid, req_embeddings, hi, response, batch_vector_results,
                vector_results_per_item, suggestions_dict, item_lookup>>
vars       == <<ingestVars, embedVars, searchVars, buildVars, scoreVars>>

----------------------------------------------------------------------------
(* Bounds of the model and constants of the program. *)

MaxItems    == 5    \* most items a fetch returns
LiveItems   == 3    \* most items a fetch returns in the runs of SpecLive
BATCH_SIZE  == 2    \* env BATCH_SIZE (default 100), scaled down
NUM_WORKERS == 2    \* env NUM_WORKERS (default 5), scaled down
Retries     == 5    \* update_vector(..., retries=5)
WaitStep    == 2    \* 0.2 s, in tenths of a second
MaxWait     == 20   \* 2.0 s, in tenths of a second

Min(a, b) == IF a < b THEN a ELSE b

\* ceil(n / d)
CeilDiv(n, d) == (n + d - 1) \div d

MaxBatches == CeilDiv(MaxItems, BATCH_SIZE)
Tasks      == 1 .. MaxBatches

\* s[a+1 .. b] of a 1-based sequence: Python's s[a:b] (0-based, b clipped).
Slice(s, a, b) == SubSeq(s, a + 1, Min(b, Len(s)))

RECURSIVE SumSeq(_)
SumSeq(s) == IF s = <<>> THEN 0 ELSE Head(s) + SumSeq(Tail(s))

SeqToSet(s) == {s[n] : n \in 1 .. Len(s)}

----------------------------------------------------------------------------
(* scripts/generate_vectors.py *)

\* (mutant of MakeBatches: every slice is one item too long)
OverlappingBatches(its) ==
    [n \in 1 .. CeilDiv(Len(its), BATCH_SIZE) |->
        Slice(its, (n - 1) * BATCH_SIZE, n * BATCH_SIZE + 1)]

\* main, lines 283-287: for i in range(0, total_items, BATCH_SIZE):
\*                          batches.append(items[i:i + BATCH_SIZE])
MakeBatches(its) ==
    [n \in 1 .. CeilDiv(Len(its), BATCH_SIZE) |->
        Slice(its, (n - 1) * BATCH_SIZE, n * BATCH_SIZE)]

\* The outcomes of one statement against the SQLite connection:
\* "ok", "locked" (OperationalError whose text holds 'locked'), "operr"
\* (another OperationalError), "exc" (any other Exception).
DbOutcomes == {"ok", "locked", "operr", "exc"}

\* What a process_batch_worker call leaves in its future: nothing yet, the
\* exception it raised, or the (success_count, failed_count) it returned.
NoResult       == [kind |-> "none", success |-> 0, failed |-> 0]
Raised         == [kind |-> "raised", success |-> 0, failed |-> 0]
Returned(s, f) == [kind |-> "returned", success |-> s, failed |-> f]

WorkerInit ==
    [pc |-> "queued", conn |-> "none", embeddings |-> "unset", idx |-> 0,
     attempt |-> 0, lastErr |-> "none", waits |-> <<>>,
     success_count |-> 0, failed_count |-> 0, tmp |-> 0,
     written |-> {}, ret |-> NoResult, calls |-> 0, posts |-> 0]

IngestInit ==
    /\ mainPc = "start"
    /\ failCause = "none"
    /\ items = <<>>
    /\ batches = <<>>
    /\ submitted = 0
    /\ handled = {}
    /\ completed = 0
    /\ success_counter = 0
    /\ failed_counter = 0
    /\ lock = 0
    /\ w = [b \in Tasks |-> WorkerInit]
    /\ persisted = {}
    /\ mainConn = "none"


\* update_vector, line 152: wait_time = min((attempt + 1) * 0.2, 2.0)
WaitTime(attempt) == Min((attempt + 1) * WaitStep, MaxWait)

\* (mutant of ShouldRetry: every OperationalError is retried)
RetryAnyOperationalError(err, attempt) ==
    err \in {"locked", "operr"} /\ attempt < Retries - 1

\* update_vector, line 149: 'locked' in str(e).lower() and attempt < retries - 1
ShouldRetry(err, attempt) == err = "locked" /\ attempt < Retries - 1

\* (mutant of OnFutureResult: the exception of a worker is not caught)
ReraiseFutureResult(ret) == IF ret.kind = "raised" THEN "reraise" ELSE "count"

\* main, lines 317-329: what main does with a finished future.  A worker that
\* raised makes future.result() raise; `except Exception` logs it.
OnFutureResult(ret) == IF ret.kind = "raised" THEN "log" ELSE "count"

Batch(b)   == batches[b]

\* (mutant of Running: the pool does not count its busy threads)
NoneRunning == {}

Running    == {c \in Tasks : w[c].pc \notin {"queued", "done"}}
SetW(b, r) == w' = [w EXCEPT ![b] = r]

\* process_batch_worker, lines 250-252: except Exception: return 0, len(batch_items)
Except(b) == [w[b] EXCEPT !.pc = "close", !.ret = Returned(0, Len(Batch(b)))]

---- 
\* main, lines 262-264
M_Start ==
    /\ mainPc = "start"
    /\ \E key \in BOOLEAN :
         IF key THEN mainPc' = "connect" /\ failCause' = failCause
                ELSE mainPc' = "failed" /\ failCause' = "api_key"
    /\ UNCHANGED <<items, batches, submitted, handled, completed, success_counter,
                   failed_counter, lock, w, persisted, mainConn>>
    /\ UNCHANGED <<embedVars, searchVars, buildVars, scoreVars>>

\* main, line 267 (connect_sqlite, lines 43-61)
M_Connect ==
    /\ mainPc = "connect"
    /\ \E ok \in BOOLEAN :
         IF ok THEN mainPc' = "fetch" /\ mainConn' = "open" /\ failCause' = failCause
               ELSE mainPc' = "failed" /\ mainConn' = mainConn /\ failCause' = "connect"
    /\ UNCHANGED <<items, batches, submitted, handled, completed, success_counter,
                   failed_counter, lock, w, persisted>>
    /\ UNCHANGED <<embedVars, searchVars, buildVars, scoreVars>>

\* main, lines 271-275 (fetch_items_without_vectors, lines 64-98), and the
\* `finally` of lines 340-341 when the fetch raises or nothing is to be done
FetchUpTo(max) ==
    /\ mainPc = "fetch"
    /\ \E ok \in BOOLEAN, n \in 0 .. max :
         IF ~ok
         THEN /\ mainPc' = "failed" /\ failCause' = "fetch"
              /\ mainConn' = "closed" /\ items' = items
         ELSE /\ items' = [k \in 1 .. n |-> k]
              /\ failCause' = failCause
              /\ IF n = 0 THEN mainPc' = "done" /\ mainConn' = "closed"
                          ELSE mainPc' = "batching" /\ mainConn' = mainConn
    /\ UNCHANGED <<batches, submitted, handled, completed, success_counter,
                   failed_counter, lock, w, persisted>>
    /\ UNCHANGED <<embedVars, searchVars, buildVars, scoreVars>>

M_Fetch == FetchUpTo(MaxItems)

\* main, lines 278-289
M_Batch ==
    /\ mainPc = "batching"
    /\ success_counter' = 0
    /\ failed_counter' = 0
    /\ batches' = MakeBatches(items)
    /\ mainPc' = "submit"
    /\ UNCHANGED <<failCause, items, submitted, handled, completed, lock, w,
                   persisted, mainConn>>
    /\ UNCHANGED <<embedVars, searchVars, buildVars, scoreVars>>

\* main, lines 302-311: one executor.submit per batch, in list order
M_Submit ==
    /\ mainPc = "submit"
    /\ submitted < Len(batches)
    /\ submitted' = submitted + 1
    /\ mainPc' = IF submitted + 1 = Len(batches) THEN "wait" ELSE "submit"
    /\ UNCHANGED <<failCause, items, batches, handled, completed, success_counter,
                   failed_counter, lock, w, persisted, mainConn>>
    /\ UNCHANGED <<embedVars, searchVars, buildVars, scoreVars>>

\* (mutant of FutureDone: a future is yielded whatever its state)
FutureAnyState(b) == TRUE

\* as_completed, line 315: a future is yielded when its call has ended
FutureDone(b) == w[b].pc = "done"

\* main, lines 315-329: as_completed yields a finished future
M_Collect(b) ==
    /\ mainPc = "wait"
    /\ b \in 1 .. Len(batches)
    /\ b \notin handled
    /\ FutureDone(b)
    /\ handled' = handled \cup {b}
    /\ LET what == OnFutureResult(w[b].ret) IN
         /\ completed' = IF what = "count" THEN completed + 1 ELSE completed
         /\ IF what = "reraise"
            THEN mainPc' = "failed" /\ failCause' = "worker" /\ mainConn' = "closed"
            ELSE UNCHANGED <<mainPc, failCause, mainConn>>
    /\ UNCHANGED <<items, batches, submitted, success_counter, failed_counter,
                   lock, w, persisted>>
    /\ UNCHANGED <<embedVars, searchVars, buildVars, scoreVars>>

\* main, line 300: leaving the `with` block, when every future was yielded
M_Join ==
    /\ mainPc = "wait"
    /\ handled = 1 .. Len(batches)
    /\ mainPc' = "summary"
    /\ UNCHANGED <<failCause, items, batches, submitted, handled, completed,
                   success_counter, failed_counter, lock, w, persisted, mainConn>>
    /\ UNCHANGED <<embedVars, searchVars, buildVars, scoreVars>>

\* main, lines 331-342
M_Summary ==
    /\ mainPc = "summary"
    /\ mainPc' = "done"
    /\ mainConn' = "closed"
    /\ UNCHANGED <<failCause, items, batches, submitted, handled, completed,
                   success_counter, failed_counter, lock, w, persisted>>
    /\ UNCHANGED <<embedVars, searchVars, buildVars, scoreVars>>

----------------------------------------------------------------------------
(* process_batch_worker, one call per batch, run by the pool's threads *)

mainSide == <<mainPc, failCause, items, batches, submitted, handled, completed, mainConn>>

\* ThreadPoolExecutor(max_workers=NUM_WORKERS), line 300: a thread takes the
\* oldest queued task; at most NUM_WORKERS threads exist.
W_Start(b) ==
    /\ b <= submitted
    /\ w[b].pc = "queued"
    /\ \A c \in 1 .. b - 1 : w[c].pc # "queued"
    /\ Cardinality(Running) < NUM_WORKERS
    /\ SetW(b, [w[b] EXCEPT !.pc = "setup", !.calls = @ + 1])
    /\ UNCHANGED <<mainSide, success_counter, failed_counter, lock, persisted>>
    /\ UNCHANGED <<embedVars, searchVars, buildVars, scoreVars>>

\* lines 203-207 when the embedding request failed: every pair of the zip has
\* embedding None, is counted as failed and skipped
AllNone(b) ==
    [w[b] EXCEPT !.pc = "commit", !.conn = "open", !.embeddings = "None",
                 !.idx = Len(Batch(b)), !.failed_count = Len(Batch(b)),
                 !.posts = @ + 1]

\* lines 176-198: the worker's connection (connect_sqlite is outside the try:
\* its failure leaves the worker as an exception), its OpenAI client (a failure
\* goes to the handler of line 250) and its one embedding request
\* (generate_embeddings_batch, lines 101-118: on an error every entry is None)
W_Setup(b, step) ==
    /\ w[b].pc = "setup"
    /\ SetW(b, CASE step = "connect_fails" ->
                      [w[b] EXCEPT !.pc = "done", !.ret = Raised]
                 [] step = "client_fails" ->
                      [Except(b) EXCEPT !.conn = "open"]
                 [] step = "embed_fails" -> AllNone(b)
                 [] step = "ok" ->
                      [w[b] EXCEPT !.pc = "update", !.conn = "open",
                                   !.embeddings = "vectors", !.posts = @ + 1])
    /\ UNCHANGED <<mainSide, success_counter, failed_counter, lock, persisted>>
    /\ UNCHANGED <<embedVars, searchVars, buildVars, scoreVars>>

\* lines 209-215: the worker counts update_vector's result and takes the next
\* pair, or goes to the commit after the last
Counted(r, ok, n) ==
    [r EXCEPT !.pc = IF r.idx + 1 >= n THEN "commit" ELSE "update",
              !.idx = @ + 1, !.attempt = 0, !.waits = <<>>,
              !.success_count = IF ok THEN @ + 1 ELSE @,
              !.failed_count = IF ok THEN @ ELSE @ + 1]

\* update_vector, lines 133-162: one pass of `for attempt in range(retries)`
\* for the pair at idx; when the call returns, lines 209-212 count the result
W_Update(b, out) ==
    /\ w[b].pc = "update"
    /\ SetW(b,
         IF w[b].attempt >= Retries
         THEN Counted(w[b], FALSE, Len(Batch(b)))
         ELSE IF out = "ok"
         THEN Counted([w[b] EXCEPT !.lastErr = out,
                                   !.written = @ \cup {Batch(b)[w[b].idx + 1]}],
                      TRUE, Len(Batch(b)))
         ELSE IF ShouldRetry(out, w[b].attempt)
         THEN [w[b] EXCEPT !.attempt = @ + 1, !.lastErr = out,
                           !.waits = Append(@, WaitTime(w[b].attempt))]
         ELSE Counted([w[b] EXCEPT !.lastErr = out], FALSE, Len(Batch(b))))
    /\ UNCHANGED <<mainSide, success_counter, failed_counter, lock, persisted>>
    /\ UNCHANGED <<embedVars, searchVars, buildVars, scoreVars>>

\* lines 215-232: conn.commit() and its handlers; rb: conn.rollback() works
W_Commit(b, out, rb) ==
    /\ w[b].pc = "commit"
    /\ \/ /\ out = "ok"
          /\ persisted' = persisted \cup w[b].written
          /\ SetW(b, [w[b] EXCEPT !.pc = "acquire", !.written = {}])
       \/ /\ out = "locked"
          /\ persisted' = persisted
          /\ SetW(b, [w[b] EXCEPT !.pc = "commit_retry"])
       \/ /\ out = "operr"
          /\ persisted' = persisted
          /\ SetW(b, IF rb THEN [w[b] EXCEPT !.pc = "acquire", !.written = {}]
                           ELSE Except(b))
       \/ /\ out = "exc"
          /\ persisted' = persisted
          /\ SetW(b, Except(b))
    /\ UNCHANGED <<mainSide, success_counter, failed_counter, lock>>
    /\ UNCHANGED <<embedVars, searchVars, buildVars, scoreVars>>

\* lines 219-225: the second conn.commit() after the 0.5 s sleep
W_CommitRetry(b, out, rb) ==
    /\ w[b].pc = "commit_retry"
    /\ \/ /\ out = "ok"
          /\ persisted' = persisted \cup w[b].written
          /\ SetW(b, [w[b] EXCEPT !.pc = "acquire", !.written = {}])
       \/ /\ out # "ok"
          /\ persisted' = persisted
          /\ SetW(b, IF rb THEN [w[b] EXCEPT !.pc = "acquire", !.written = {}]
                           ELSE Except(b))
    /\ UNCHANGED <<mainSide, success_counter, failed_counter, lock>>
    /\ UNCHANGED <<embedVars, searchVars, buildVars, scoreVars>>

\* line 239: with lock
W_Acquire(b) ==
    /\ w[b].pc = "acquire"
    /\ lock = 0
    /\ lock' = b
    /\ SetW(b, [w[b] EXCEPT !.pc = "read_s"])
    /\ UNCHANGED <<mainSide, success_counter, failed_counter, persisted>>
    /\ UNCHANGED <<embedVars, searchVars, buildVars, scoreVars>>

\* line 240: success_counter['count'] += success_count, the load ...
W_ReadS(b) ==
    /\ w[b].pc = "read_s"
    /\ SetW(b, [w[b] EXCEPT !.pc = "write_s", !.tmp = success_counter])
    /\ UNCHANGED <<mainSide, success_counter, failed_counter, lock, persisted>>
    /\ UNCHANGED <<embedVars, searchVars, buildVars, scoreVars>>

\* ... and the store
W_WriteS(b) ==
    /\ w[b].pc = "write_s"
    /\ success_counter' = w[b].tmp + w[b].success_count
    /\ SetW(b, [w[b] EXCEPT !.pc = "read_f", !.tmp = 0])
    /\ UNCHANGED <<mainSide, failed_counter, lock, persisted>>
    /\ UNCHANGED <<embedVars, searchVars, buildVars, scoreVars>>

\* line 241: failed_counter['count'] += failed_count, the load ...
W_ReadF(b) ==
    /\ w[b].pc = "read_f"
    /\ SetW(b, [w[b] EXCEPT !.pc = "write_f", !.tmp = failed_counter])
    /\ UNCHANGED <<mainSide, success_counter, failed_counter, lock, persisted>>
    /\ UNCHANGED <<embedVars, searchVars, buildVars, scoreVars>>

\* ... and the store
W_WriteF(b) ==
    /\ w[b].pc = "write_f"
    /\ failed_counter' = w[b].tmp + w[b].failed_count
    /\ SetW(b, [w[b] EXCEPT !.pc = "release", !.tmp = 0])
    /\ UNCHANGED <<mainSide, success_counter, lock, persisted>>
    /\ UNCHANGED <<embedVars, searchVars, buildVars, scoreVars>>

\* (mutant of W_Release: the lock stays held)
ReleaseKeepsLock(b) ==
    /\ w[b].pc = "release"
    /\ SetW(b, [w[b] EXCEPT !.pc = "close",
                            !.ret = Returned(w[b].success_count, w[b].failed_count)])
    /\ UNCHANGED <<mainSide, success_counter, failed_counter, lock, persisted>>
    /\ UNCHANGED <<embedVars, searchVars, buildVars, scoreVars>>

\* lines 241-248: the lock is released and the counts are returned
W_Release(b) ==
    /\ w[b].pc = "release"
    /\ lock' = 0
    /\ SetW(b, [w[b] EXCEPT !.pc = "close",
                            !.ret = Returned(w[b].success_count, w[b].failed_count)])
    /\ UNCHANGED <<mainSide, success_counter, failed_counter, persisted>>
    /\ UNCHANGED <<embedVars, searchVars, buildVars, scoreVars>>

\* lines 253-255: finally: conn.close(); what was not committed is lost, and
\* the call's locals end with it (calls and posts count, for the whole run,
\* the calls of process_batch_worker for the batch and their embedding
\* requests)
W_Close(b) ==
    /\ w[b].pc = "close"
    /\ SetW(b, [WorkerInit EXCEPT !.pc = "done", !.conn = "closed", !.ret = w[b].ret,
                                  !.calls = w[b].calls, !.posts = w[b].posts])
    /\ UNCHANGED <<mainSide, success_counter, failed_counter, lock, persisted>>
    /\ UNCHANGED <<embedVars, searchVars, buildVars, scoreVars>>

SetupSteps == {"connect_fails", "client_fails", "embed_fails", "ok"}

Worker(b) ==
    \/ W_Start(b)
    \/ \E step \in SetupSteps : W_Setup(b, step)
    \/ \E out \in DbOutcomes : W_Update(b, out)
    \/ \E out \in DbOutcomes, rb \in BOOLEAN : W_Commit(b, out, rb)
    \/ \E out \in DbOutcomes, rb \in BOOLEAN : W_CommitRetry(b, out, rb)
    \/ W_Acquire(b) \/ W_ReadS(b) \/ W_WriteS(b) \/ W_ReadF(b) \/ W_WriteF(b)
    \/ W_Release(b) \/ W_Close(b)

Main ==
    \/ M_Start \/ M_Connect \/ M_Fetch \/ M_Batch \/ M_Submit
    \/ (\E b \in Tasks : M_Collect(b))
    \/ M_Join \/ M_Summary

EmbedInit ==
    /\ epc = "start"
    /\ texts = <<>>
    /\ ei = 0
    /\ all_embeddings = <<>>
    /\ requests = <<>>
    /\ chunkLog = <<>>

\* What a call gave: nothing yet, an exception, or its return value.
NotCalled   == [status |-> "none", value |-> <<>>]
Raises      == [status |-> "raised", value |-> <<>>]
Gives(v)    == [status |-> "returned", value |-> v]

\* api/database.py, lines 21-25: the module's globals, all None
SearchGlobalsInit ==
    /\ apiPhase = "startup"
    /\ vectors_cache = <<>>
    /\ item_skus = <<>>
    /\ item_names = <<>>
    /\ item_sku_to_index = <<>>
    /\ query_vectors = <<>>
    /\ top_k = 0
    /\ single = <<>>
    /\ batch = NotCalled
    /\ loadResult = "none"

\* The cache file at VECTORS_CACHE_PATH, as save_cache (scripts/
\* load_vectors_to_memory.py, lines 98-109) writes it; "old" is the format
\* without the 'item_skus' key, "missing" is no file at all.
CacheFile(f, v, skus, names) ==
    [format |-> f, vectors |-> v, item_skus |-> skus, item_names |-> names]

MissingFile == CacheFile("missing", <<>>, <<>>, <<>>)

\* scripts/load_vectors_to_memory.py before run_rebuild_cache is called
BuildGlobalsInit ==
    /\ rebuild = "idle"
    /\ rows = <<>>
    /\ ri = 0
    /\ skus_list = <<>>
    /\ names_list = <<>>
    /\ vectors_list = <<>>
    /\ loadCacheResult = NotCalled

BuildIdle == BuildGlobalsInit /\ cacheFile = MissingFile

\* What get_all_historical_mappings gave: its rows, or an exception.
Lookup(rs)   == [ok |-> TRUE, rows |-> rs]
LookupFailed == [ok |-> FALSE, rows |-> <<>>]

\* get_suggestions, lines 236-240: whether the item lookup is skipped
\* (skip_item_lookup), and if not, the first result whose get_item_by_sku
\* does not give a row (0: none): it gives None ("absent") or raises
ItemLookup(skip, at, kind) == [skip |-> skip, at |-> at, kind |-> kind]

\* api/matcher.py and api/routes.py before any call
ScoreIdle ==
    /\ spc = "idle"
    /\ historical_mappings = Lookup(<<>>)
    /\ vector_results = <<>>
    /\ h_top_k = 0
    /\ embedding = "unused"
    /\ hybrid = NotCalled
    /\ req_embeddings = <<>>
    /\ hi = 0
    /\ response = 0
    /\ batch_vector_results = NotCalled
    /\ vector_results_per_item = <<>>
    /\ suggestions_dict = <<>>
    /\ item_lookup = ItemLookup(TRUE, 0, "found")

SearchIdle == SearchGlobalsInit /\ tiePri = <<>>

Init == IngestInit /\ EmbedInit /\ SearchIdle /\ BuildIdle /\ ScoreIdle

Next == Main \/ \E b \in Tasks : Worker(b)

Spec == Init /\ [][Next]_vars

\* main's thread runs, and so does every thread of the pool: the interpreter
\* switches between runnable threads, and the sleeps, the database's busy
\* timeout and the embedding client's timeout all end
\* The runs checked for termination: those that fetch up to LiveItems items.
L_Fetch == FetchUpTo(LiveItems)

MainLive ==
    \/ M_Start \/ M_Connect \/ L_Fetch \/ M_Batch \/ M_Submit
    \/ (\E b \in Tasks : M_Collect(b))
    \/ M_Join \/ M_Summary

NextLive == MainLive \/ \E b \in Tasks : Worker(b)

Fairness == WF_vars(MainLive) /\ \A b \in Tasks : WF_vars(Worker(b))

SpecLive == Init /\ [][NextLive]_vars /\ Fairness

----------------------------------------------------------------------------
(* api/matcher.py generate_embeddings_batch *)

MaxTexts == 5    \* most texts in one call
NumTexts == 2    \* how many different texts there are

TextIds == 1 .. NumTexts
TextLists == UNION {[1 .. n -> TextIds] : n \in 0 .. MaxTexts}

\* None, and the vector the embedding service computes for a text
None   == <<>>
Emb(t) == <<t>>

\* The orders in which the service may list the n items of its answer: every
\* arrangement of the indices 0 .. n-1.
Orders(n) == {o \in [1 .. n -> 0 .. n - 1] : \A x, y \in 1 .. n : x # y => o[x] # o[y]}

\* data["data"] of a 200 answer to `chunk`, listed in order o
Response(chunk, o) ==
    [x \in 1 .. Len(chunk) |-> [index |-> o[x], embedding |-> Emb(chunk[o[x] + 1])]]

\* sorted(seq, key=lambda x: x["index"]): insertion of each item after the
\* items whose key is not larger (Python's sort is stable)
RECURSIVE InsertByIndex(_, _)
InsertByIndex(sorted, item) ==
    IF sorted = <<>> THEN <<item>>
    ELSE IF Head(sorted).index <= item.index
         THEN <<Head(sorted)>> \o InsertByIndex(Tail(sorted), item)
         ELSE <<item>> \o sorted

RECURSIVE SortInto(_, _)
SortInto(sorted, rest) ==
    IF rest = <<>> THEN sorted
    ELSE SortInto(InsertByIndex(sorted, Head(rest)), Tail(rest))

\* (mutant of SortByIndex: the answer is taken in the order received)
AsReceived(data) == data

\* line 89: sorted(data["data"], key=lambda x: x["index"])
SortByIndex(data) == SortInto(<<>>, data)

\* lines 87-90: the vectors of the answer, in index order
Embeddings(data) == [x \in 1 .. Len(data) |-> SortByIndex(data)[x].embedding]

\* (mutant of ChunkOf: the slice is one text too long)
ChunkOneTooLong(txts, i) == Slice(txts, i, i + BATCH_SIZE + 1)

\* line 70: batch = texts[i : i + BATCH_SIZE]
ChunkOf(txts, i) == Slice(txts, i, i + BATCH_SIZE)

\* (mutant of OnChunkFailure: one None for the whole chunk)
OneNone(all, chunk) == Append(all, None)

\* line 94: all_embeddings.extend([None] * len(batch))
OnChunkFailure(all, chunk) == all \o [x \in 1 .. Len(chunk) |-> None]

\* line 66: num_batches = (len(texts) + BATCH_SIZE - 1) // BATCH_SIZE
num_batches(txts) == (Len(txts) + BATCH_SIZE - 1) \div BATCH_SIZE

\* lines 59-67: the call, its API key check and the loop's start
E_Call(txts, key) ==
    /\ epc = "start"
    /\ texts' = txts
    /\ epc' = IF key THEN "loop" ELSE "raised"
    /\ ei' = 0
    /\ all_embeddings' = <<>>
    /\ requests' = <<>>
    /\ chunkLog' = <<>>
    /\ UNCHANGED <<ingestVars, searchVars, buildVars, scoreVars>>

\* lines 69-86 and 92-94: one pass of `for i in range(0, len(texts),
\* BATCH_SIZE)` whose POST fails (status, timeout, body)
E_ChunkFails ==
    /\ epc = "loop"
    /\ ei < Len(texts)
    /\ requests' = Append(requests, ChunkOf(texts, ei))
    /\ all_embeddings' = OnChunkFailure(all_embeddings, ChunkOf(texts, ei))
    /\ chunkLog' = Append(chunkLog, [ok |-> FALSE, order |-> <<>>])
    /\ ei' = ei + BATCH_SIZE
    /\ UNCHANGED <<epc, texts>>
    /\ UNCHANGED <<ingestVars, searchVars, buildVars, scoreVars>>

\* lines 69-91: one pass whose POST is answered, the answer listing the
\* chunk's items in some order o
E_ChunkAnswered ==
    /\ epc = "loop"
    /\ ei < Len(texts)
    /\ \E o \in Orders(Len(ChunkOf(texts, ei))) :
         /\ all_embeddings' =
                all_embeddings \o Embeddings(Response(ChunkOf(texts, ei), o))
         /\ chunkLog' = Append(chunkLog, [ok |-> TRUE, order |-> o])
    /\ requests' = Append(requests, ChunkOf(texts, ei))
    /\ ei' = ei + BATCH_SIZE
    /\ UNCHANGED <<epc, texts>>
    /\ UNCHANGED <<ingestVars, searchVars, buildVars, scoreVars>>

\* line 96: return all_embeddings
E_Return ==
    /\ epc = "loop"
    /\ ei >= Len(texts)
    /\ epc' = "returned"
    /\ UNCHANGED <<texts, ei, all_embeddings, requests, chunkLog>>
    /\ UNCHANGED <<ingestVars, searchVars, buildVars, scoreVars>>

NextEmbed ==
    \/ \E txts \in TextLists, key \in BOOLEAN : E_Call(txts, key)
    \/ E_ChunkFails
    \/ E_ChunkAnswered
    \/ E_Return

SpecEmbed == Init /\ [][NextEmbed]_vars

----------------------------------------------------------------------------
(* api/database.py: the snapshot in memory and the two searches *)

MaxRows    == 3    \* most rows of a snapshot
MaxQueries == 2    \* most queries of one request
MaxK       == 2    \* largest top_k of a request

\* Embeddings are vectors of two small integers; <<0, 0>> is the zero vector.
VecSet == {<<0, 0>>, <<1, 0>>, <<1, 1>>}

SkuOfRow(r) == 100 + r

\* The cache file the API finds at startup: absent, in the old format (no
\* 'item_skus' key) or as scripts/load_vectors_to_memory.py save_cache writes
\* it, its rows in sku order.
CacheFiles ==
    {MissingFile} \cup
    {CacheFile(f, v,
               IF f = "old" THEN <<>> ELSE [r \in 1 .. Len(v) |-> SkuOfRow(r)],
               [r \in 1 .. Len(v) |-> SkuOfRow(r)]) :
        f \in {"old", "new"},
        v \in UNION {[1 .. n -> VecSet] : n \in 1 .. MaxRows}}

\* A similarity is a float: NaN, or the number d / sqrt(nn) kept exactly as
\* the pair (d, nn), nn > 0.  Rounding is not modelled: two similarities are
\* equal when the numbers are.
NaN        == [nan |-> TRUE, d |-> 0, nn |-> 1]
Num(d, nn) == [nan |-> FALSE, d |-> d, nn |-> nn]

Dot(a, b) == a[1] * b[1] + a[2] * b[2]
Norm2(a)  == Dot(a, a)

\* sgn(d) * d^2 / nn orders the numbers d / sqrt(nn) as they are ordered
Sq(x) == (IF x.d < 0 THEN -1 ELSE 1) * x.d * x.d

\* IEEE comparisons: every comparison with NaN is false
FloatLess(x, y) == ~x.nan /\ ~y.nan /\ Sq(x) * y.nn < Sq(y) * x.nn
FloatEq(x, y)   == ~x.nan /\ ~y.nan /\ Sq(x) * y.nn = Sq(y) * x.nn

\* x / y for floats, where y = sqrt(nn): 0 / 0 is NaN (every zero divisor
\* here comes with a zero dividend: the dot product with a zero vector)
Divide(d, nn) == IF nn = 0 THEN NaN ELSE Num(d, nn)

\* cosine_similarity, lines 183-192: 0.0 when either norm is zero
cosine_similarity(vec1, vec2) ==
    IF Norm2(vec1) = 0 \/ Norm2(vec2) = 0
    THEN Num(0, 1)
    ELSE Divide(Dot(vec1, vec2), Norm2(vec1) * Norm2(vec2))

\* search_vectors, lines 204-206:
\* np.dot(_vectors_cache, query_vector) /
\*     (np.linalg.norm(_vectors_cache, axis=1) * np.linalg.norm(query_vector))
Similarities(cache, q) ==
    [r \in 1 .. Len(cache) |-> Divide(Dot(cache[r], q), Norm2(cache[r]) * Norm2(q))]

\* search_vectors_batch, lines 235-243: a zero norm is replaced by 1e-10, so
\* the division gives 0.0 for a zero vector
BatchSimilarities(cache, q) ==
    [r \in 1 .. Len(cache) |->
        IF Norm2(cache[r]) = 0 \/ Norm2(q) = 0
        THEN Num(0, 1)
        ELSE Divide(Dot(cache[r], q), Norm2(cache[r]) * Norm2(q))]

\* np.argsort(a) (kind 'quicksort', not stable): ascending, NaN last; the
\* order among equal keys is the build's, given by tiePri
Before(a, i, j) ==
    \/ ~a[i].nan /\ a[j].nan
    \/ FloatLess(a[i], a[j])
    \/ /\ a[i].nan = a[j].nan
       /\ a[i].nan \/ FloatEq(a[i], a[j])
       /\ tiePri[i] < tiePri[j]

ArgSort(a) ==
    [p \in 1 .. Len(a) |->
        CHOOSE i \in 1 .. Len(a) :
            Cardinality({j \in 1 .. Len(a) : Before(a, j, i)}) = p - 1]

\* lines 209 and 247: np.argsort(similarities)[::-1][:top_k]
TopIndices(a, k) ==
    LET order == ArgSort(a) IN
    [p \in 1 .. Min(k, Len(a)) |-> order[Len(a) + 1 - p]]

\* lines 211-218 and 248-251: the (sku, score) pairs of the top indices
Pairs(a, k, skus) ==
    [p \in 1 .. Min(k, Len(a)) |->
        [sku |-> skus[TopIndices(a, k)[p]], score |-> a[TopIndices(a, k)[p]]]]

\* search_vectors, lines 195-218
search_vectors(q, k) ==
    IF vectors_cache = <<>> THEN Raises
    ELSE IF item_skus = <<>> /\ k > 0 THEN Raises
    ELSE Gives(Pairs(Similarities(vectors_cache[1], q), k,
                     IF item_skus = <<>> THEN <<>> ELSE item_skus[1]))

\* search_vectors_batch, lines 221-252
search_vectors_batch(qs, k) ==
    IF vectors_cache = <<>> THEN Raises
    ELSE IF Len(qs) = 0 THEN Gives(<<>>)
    ELSE IF item_skus = <<>> /\ k > 0 THEN Raises
    ELSE Gives([x \in 1 .. Len(qs) |->
                  Pairs(BatchSimilarities(vectors_cache[1], qs[x]), k,
                        IF item_skus = <<>> THEN <<>> ELSE item_skus[1])])

\* line 58: {sku: idx for idx, sku in enumerate(_item_skus)}: the last row of
\* a sku wins
SkuToIndex(skus) ==
    [s \in SeqToSet(skus) |->
        CHOOSE r \in 1 .. Len(skus) :
            skus[r] = s /\ \A r2 \in 1 .. Len(skus) : skus[r2] = s => r2 <= r]

\* load_vectors_to_memory, lines 35-65, called once by lifespan
\* (api/main.py, lines 22-34), which logs its exception and goes on.  An
\* absent file makes it return at line 43; the old format makes it raise at
\* line 54, after line 48 has assigned _vectors_cache.
S_Load(file) ==
    /\ apiPhase = "startup"
    /\ file = cacheFile
    /\ apiPhase' = "serving"
    /\ CASE file.format = "missing" ->
              /\ loadResult' = "returned"
              /\ UNCHANGED <<vectors_cache, item_skus, item_names, item_sku_to_index>>
         [] file.format = "old" ->
              /\ vectors_cache' = <<file.vectors>>
              /\ loadResult' = "raised"
              /\ UNCHANGED <<item_skus, item_names, item_sku_to_index>>
         [] file.format = "new" ->
              /\ vectors_cache' = <<file.vectors>>
              /\ item_skus' = <<file.item_skus>>
              /\ item_names' = <<file.item_names>>
              /\ item_sku_to_index' = <<SkuToIndex(file.item_skus)>>
              /\ loadResult' = "returned"
    /\ UNCHANGED <<tiePri, query_vectors, top_k, single, batch>>
    /\ UNCHANGED <<ingestVars, embedVars, buildVars, scoreVars>>

\* get_vectors, lines 68-72: raises while _vectors_cache is None, and
\* otherwise returns the three globals as they are
get_vectors ==
    IF vectors_cache = <<>> THEN Raises
    ELSE Gives([vectors |-> vectors_cache, item_skus |-> item_skus,
                item_names |-> item_names])

\* health_check (api/main.py, lines 71-80)
health_check ==
    [vectors_loaded |-> vectors_cache # <<>>,
     items_count    |-> IF item_skus = <<>> THEN 0 ELSE Len(item_skus[1])]

\* a request arrives with its query vectors and its top_k
S_Request(qs, k) ==
    /\ apiPhase = "serving"
    /\ query_vectors = <<>>
    /\ query_vectors' = qs
    /\ top_k' = k
    /\ single' = [x \in 1 .. Len(qs) |-> NotCalled]
    /\ batch' = NotCalled
    /\ UNCHANGED <<apiPhase, vectors_cache, item_skus, item_names,
                   item_sku_to_index, tiePri, loadResult>>
    /\ UNCHANGED <<ingestVars, embedVars, buildVars, scoreVars>>

\* search_vectors(query_vectors[x], top_k)
S_Search(x) ==
    /\ x \in 1 .. Len(query_vectors)
    /\ single[x] = NotCalled
    /\ single' = [single EXCEPT ![x] = search_vectors(query_vectors[x], top_k)]
    /\ UNCHANGED <<apiPhase, vectors_cache, item_skus, item_names,
                   item_sku_to_index, tiePri, query_vectors, top_k, batch,
                   loadResult>>
    /\ UNCHANGED <<ingestVars, embedVars, buildVars, scoreVars>>

\* search_vectors_batch(query_vectors, top_k)
S_SearchBatch ==
    /\ query_vectors # <<>>
    /\ batch = NotCalled
    /\ batch' = search_vectors_batch(query_vectors, top_k)
    /\ UNCHANGED <<apiPhase, vectors_cache, item_skus, item_names,
                   item_sku_to_index, tiePri, query_vectors, top_k, single,
                   loadResult>>
    /\ UNCHANGED <<ingestVars, embedVars, buildVars, scoreVars>>

\* The build's tie order: any ranking of the row positions.
TieOrders ==
    {t \in [1 .. MaxRows -> 1 .. MaxRows] :
        \A x, y \in 1 .. MaxRows : x # y => t[x] # t[y]}

QueryLists == UNION {[1 .. n -> VecSet] : n \in 1 .. MaxQueries}

InitSearch ==
    /\ IngestInit /\ EmbedInit /\ SearchGlobalsInit
    /\ BuildGlobalsInit /\ ScoreIdle
    /\ tiePri \in TieOrders
    /\ cacheFile \in CacheFiles

NextSearch ==
    \/ S_Load(cacheFile)
    \/ \E qs \in QueryLists, k \in 0 .. MaxK : S_Request(qs, k)
    \/ \E x \in 1 .. MaxQueries : S_Search(x)
    \/ S_SearchBatch

SpecSearch == InitSearch /\ [][NextSearch]_vars

----------------------------------------------------------------------------
(* scripts/load_vectors_to_memory.py: the rebuild of the cache file, and the
   API's load of it at startup *)

MaxRecords    == 3      \* most rows the SELECT of lines 40-49 returns
EMBEDDING_DIM == 1536   \* line 73

BuildSkus == {101, 102}
BuildVecs == {<<1, 0>>, <<1, 1>>}

\* A name_vector blob: whether pickle.loads decodes it (line 66), the
\* shape[0] of the array it gives (line 73) and the array, scaled down to
\* two components.
Blob(dec, dim, v) == [decodes |-> dec, dim |-> dim, vec |-> v]

Blobs ==
    {Blob(FALSE, 0, <<>>), Blob(TRUE, 3, <<1, 0>>)} \cup
    {Blob(TRUE, EMBEDDING_DIM, v) : v \in BuildVecs}

\* a row of the items table: the pos-th of the result, with its name
DbRow(sku, pos, blob) == [sku |-> sku, name |-> 1000 + pos, name_vector |-> blob]

\* What the SELECT can return: rows in sku order (ORDER BY sku).  The table's
\* key is id (scripts/clone_database.py, line 207), so two rows may carry the
\* same sku.
RowLists ==
    UNION {{[p \in 1 .. n |-> DbRow(sk[p], p, bl[p])] :
               sk \in {t \in [1 .. n -> BuildSkus] :
                          \A p \in 1 .. n - 1 : t[p] <= t[p + 1]},
               bl \in [1 .. n -> Blobs]} :
           n \in 0 .. MaxRecords}

\* (mutant of Valid: the dimension is not checked)
DecodableOnly(row) == row.name_vector.decodes

\* load_items_and_vectors, lines 64-83: the row is kept when its blob decodes
\* and has dimension 1536, skipped with a warning otherwise
Valid(row) ==
    row.name_vector.decodes /\ row.name_vector.dim = EMBEDDING_DIM

\* run_rebuild_cache, lines 139-147, and load_items_and_vectors, lines 37-59:
\* connect, run the SELECT; no row at all makes load_items_and_vectors return
\* empty lists, and run_rebuild_cache raise at line 150
B_Start(rs, connected) ==
    /\ rebuild = "idle"
    /\ IF ~connected
       THEN rebuild' = "raised" /\ rows' = rows
       ELSE /\ rows' = rs
            /\ rebuild' = IF rs = <<>> THEN "raised" ELSE "loop"
    /\ UNCHANGED <<cacheFile, ri, skus_list, names_list, vectors_list,
                   loadCacheResult>>
    /\ UNCHANGED <<ingestVars, embedVars, searchVars, scoreVars>>

\* load_items_and_vectors, lines 61-83: one pass of the loop
B_Record ==
    /\ rebuild = "loop"
    /\ ri < Len(rows)
    /\ ri' = ri + 1
    /\ IF Valid(rows[ri + 1])
       THEN /\ skus_list' = Append(skus_list, rows[ri + 1].sku)
            /\ names_list' = Append(names_list, rows[ri + 1].name)
            /\ vectors_list' = Append(vectors_list, rows[ri + 1].name_vector.vec)
       ELSE UNCHANGED <<skus_list, names_list, vectors_list>>
    /\ UNCHANGED <<cacheFile, rebuild, rows, loadCacheResult>>
    /\ UNCHANGED <<ingestVars, embedVars, searchVars, scoreVars>>

\* load_items_and_vectors, lines 85-95, and run_rebuild_cache, lines 149-166:
\* with no valid vector the lists come back empty and line 150 raises before
\* save_cache; otherwise save_cache (lines 98-109) writes the file
B_Finish ==
    /\ rebuild = "loop"
    /\ ri = Len(rows)
    /\ IF vectors_list = <<>>
       THEN rebuild' = "raised" /\ cacheFile' = cacheFile
       ELSE /\ rebuild' = "done"
            /\ cacheFile' = CacheFile("new", vectors_list, skus_list, names_list)
    /\ UNCHANGED <<rows, ri, skus_list, names_list, vectors_list, loadCacheResult>>
    /\ UNCHANGED <<ingestVars, embedVars, searchVars, scoreVars>>

\* load_cache, lines 115-131
load_cache(file) ==
    IF file.format = "new"
    THEN Gives(<<file.vectors, file.item_skus, file.item_names>>)
    ELSE Raises

B_LoadCache ==
    /\ loadCacheResult = NotCalled
    /\ loadCacheResult' = load_cache(cacheFile)
    /\ UNCHANGED <<cacheFile, rebuild, rows, ri, skus_list, names_list, vectors_list>>
    /\ UNCHANGED <<ingestVars, embedVars, searchVars, scoreVars>>

\* a file left by a version that wrote 'item_ids'
OldFile == CacheFile("old", <<<<1, 0>>>>, <<>>, <<1001>>)

InitBuild ==
    /\ IngestInit /\ EmbedInit /\ SearchIdle /\ BuildGlobalsInit /\ ScoreIdle
    /\ cacheFile \in {MissingFile, OldFile}

NextBuild ==
    \/ \E rs \in RowLists, connected \in BOOLEAN : B_Start(rs, connected)
    \/ B_Record
    \/ B_Finish
    \/ B_LoadCache
    \/ S_Load(cacheFile)

SpecBuild == InitBuild /\ [][NextBuild]_vars

----------------------------------------------------------------------------
(* api/matcher.py: normalize_frequencies, calculate_hybrid_score and
   get_suggestions; api/routes.py: the /suggest handler *)

MaxHist        == 2    \* most rows of one requirement's history
MaxVec         == 2    \* most pairs of a vector result list
MaxReq         == 3    \* most line items of a /suggest request
SUGGEST_TOP_K  == 3    \* routes.py line 184: top_k=3

\* A score is a Python float, kept exactly as the fraction n / d, d > 0.
\* Rounding is not modelled, and the similarities handed to the scoring are
\* numbers.
Rat(n, d)  == [n |-> n, d |-> d]
Zero       == Rat(0, 1)
RMul(a, b) == Rat(a.n * b.n, a.d * b.d)
RAdd(a, b) == Rat(a.n * b.d + b.n * a.d, a.d * b.d)
RLess(a, b) == a.n * b.d < b.n * a.d
REq(a, b)   == a.n * b.d = b.n * a.d

\* matcher.py, lines 30-31
HISTORY_WEIGHT == Rat(7, 10)
VECTOR_WEIGHT  == Rat(3, 10)

Skus    == {"SKU-A", "SKU-B", "SKU-C"}
FreqSet == {0, 1, 5}
SimSet  == {Rat(9, 10), Rat(1, 2)}
TopKs   == 1 .. SUGGEST_TOP_K

\* The rows get_all_historical_mappings reads for one requirement, in the
\* order the database returns them (no ORDER BY); UNIQUE(requirement_string,
\* sku) keeps their skus distinct.
HistLists ==
    UNION {{[p \in 1 .. n |-> [sku |-> sk[p], frequency |-> fr[p]]] :
               sk \in {t \in [1 .. n -> Skus] :
                          \A p, q \in 1 .. n : p # q => t[p] # t[q]},
               fr \in [1 .. n -> FreqSet]} :
           n \in 0 .. MaxHist}

Lookups == {LookupFailed} \cup {Lookup(h) : h \in HistLists}

\* Vector result lists: (sku, similarity) pairs
VecLists ==
    UNION {{[p \in 1 .. n |-> [sku |-> sk[p], similarity |-> sm[p]]] :
               sk \in [1 .. n -> Skus], sm \in [1 .. n -> SimSet]} :
           n \in 0 .. MaxVec}

RECURSIVE MaxFreq(_)
MaxFreq(freqs) ==
    IF Len(freqs) = 1 THEN freqs[1].frequency
    ELSE LET m == MaxFreq(Tail(freqs)) IN
         IF freqs[1].frequency > m THEN freqs[1].frequency ELSE m

\* (mutant of normalize_frequencies: divides by the sum of the frequencies)
NormalizeBySum(frequencies) ==
    LET total == SumSeq([p \in 1 .. Len(frequencies) |-> frequencies[p].frequency]) IN
    [p \in 1 .. Len(frequencies) |->
        [sku |-> frequencies[p].sku,
         value |-> IF total = 0 THEN Zero ELSE Rat(frequencies[p].frequency, total)]]

\* normalize_frequencies, lines 99-108; a dict is kept as the sequence of its
\* items in insertion order
normalize_frequencies(frequencies) ==
    IF frequencies = <<>> THEN <<>>
    ELSE LET max_freq == MaxFreq(frequencies) IN
         [p \in 1 .. Len(frequencies) |->
             [sku |-> frequencies[p].sku,
              value |-> IF max_freq = 0 THEN Zero
                        ELSE Rat(frequencies[p].frequency, max_freq)]]

\* calculate_hybrid_score, lines 166-173: the record of a history sku
HistoryRecord(sku, normalized_freq, frequency) ==
    [sku |-> sku,
     historical_score |-> RMul(normalized_freq, HISTORY_WEIGHT),
     vector_score |-> Zero,
     historical_frequency |-> frequency,
     vector_similarity |-> Zero,
     final_score |-> RMul(normalized_freq, HISTORY_WEIGHT)]

\* lines 178-184: the record of a sku the history does not have
VectorRecord(sku, vector_sim) ==
    [sku |-> sku,
     historical_score |-> Zero,
     vector_score |-> RMul(vector_sim, VECTOR_WEIGHT),
     historical_frequency |-> 0,
     vector_similarity |-> vector_sim,
     final_score |-> RMul(vector_sim, VECTOR_WEIGHT)]

\* (mutant of CombinedRecord: the final score is the vector score alone)
VectorOnlyFinal(old, vector_sim) ==
    [old EXCEPT !.vector_score = RMul(vector_sim, VECTOR_WEIGHT),
                !.vector_similarity = vector_sim,
                !.final_score = RMul(vector_sim, VECTOR_WEIGHT)]

\* (mutant of CombinedRecord: the vector score is added to the one the record
\* has)
AccumulatedVectorScore(old, vector_sim) ==
    [old EXCEPT !.vector_score = RAdd(old.vector_score, RMul(vector_sim, VECTOR_WEIGHT)),
                !.vector_similarity = vector_sim,
                !.final_score = RAdd(old.historical_score,
                                     RAdd(old.vector_score,
                                          RMul(vector_sim, VECTOR_WEIGHT)))]

\* lines 186-192: a vector result for a sku that has a record
CombinedRecord(old, vector_sim) ==
    [old EXCEPT !.vector_score = RMul(vector_sim, VECTOR_WEIGHT),
                !.vector_similarity = vector_sim,
                !.final_score = RAdd(old.historical_score,
                                     RMul(vector_sim, VECTOR_WEIGHT))]

\* lines 176-192: the loop over the vector results; combined_scores is kept
\* as the sequence of its records in insertion order
RECURSIVE AddVectorScores(_, _)
AddVectorScores(combined_scores, vrs) ==
    IF vrs = <<>> THEN combined_scores
    ELSE LET item == Head(vrs)
             at   == {p \in 1 .. Len(combined_scores) :
                         combined_scores[p].sku = item.sku}
         IN  IF at = {}
             THEN AddVectorScores(
                      Append(combined_scores, VectorRecord(item.sku, item.similarity)),
                      Tail(vrs))
             ELSE LET p == CHOOSE q \in at : TRUE IN
                  AddVectorScores(
                      [combined_scores EXCEPT
                          ![p] = CombinedRecord(combined_scores[p], item.similarity)],
                      Tail(vrs))

\* lines 163-192
CombinedScores(hist, vrs) ==
    LET normalized_history == normalize_frequencies(hist) IN
    AddVectorScores(
        [p \in 1 .. Len(hist) |->
            HistoryRecord(hist[p].sku, normalized_history[p].value, hist[p].frequency)],
        vrs)

\* (mutant of SortedResults: ascending instead of reverse=True)
SortedAscending(recs) ==
    [q \in 1 .. Len(recs) |->
        recs[CHOOSE i \in 1 .. Len(recs) :
                Cardinality({j \in 1 .. Len(recs) :
                    \/ RLess(recs[j].final_score, recs[i].final_score)
                    \/ REq(recs[j].final_score, recs[i].final_score) /\ j < i})
                = q - 1]]

\* lines 195-199: sorted(..., key=final_score, reverse=True); Python's sort is
\* stable, also with reverse=True: equal scores stay in insertion order
SortedResults(recs) ==
    [q \in 1 .. Len(recs) |->
        recs[CHOOSE i \in 1 .. Len(recs) :
                Cardinality({j \in 1 .. Len(recs) :
                    \/ RLess(recs[i].final_score, recs[j].final_score)
                    \/ REq(recs[j].final_score, recs[i].final_score) /\ j < i})
                = q - 1]]

\* calculate_hybrid_score, lines 111-206, from step 4 on, for the history
\* and the vector results steps 1-3 arrived at; line 137 is outside any try,
\* so a failed lookup raises
calculate_hybrid_score(lookup, vrs, k) ==
    IF ~lookup.ok THEN Raises
    ELSE LET sorted == SortedResults(CombinedScores(lookup.rows, vrs)) IN
         Gives(SubSeq(sorted, 1, Min(k, Len(sorted))))

\* get_suggestions, lines 209-261, called with skip_item_lookup=True: one
\* suggestion per hybrid result, and [] for any exception
get_suggestions(lookup, vrs, k) ==
    LET hybrid_results == calculate_hybrid_score(lookup, vrs, k) IN
    IF hybrid_results = Raises THEN Gives(<<>>) ELSE hybrid_results

\* What a search returns: pairs in descending order of similarity
\* (database.py, lines 209 and 247)
SearchLists ==
    {v \in VecLists :
        \A p \in 1 .. Len(v) - 1 : ~RLess(v[p].similarity, v[p + 1].similarity)}

\* What search_vectors gave inside calculate_hybrid_score: an exception
\* (logged at line 158) or a list
SearchOutcomes ==
    {[ok |-> FALSE, list |-> <<>>]} \cup {[ok |-> TRUE, list |-> v] : v \in SearchLists}

\* calculate_hybrid_score(requirement, top_k=k, vector_results=vrs), for any
\* history, vector results and top_k: steps 2 and 3 are skipped, no embedding
\* is asked for
H_Score ==
    /\ spc = "idle"
    /\ \E lookup \in Lookups, vrs \in VecLists, k \in TopKs :
          /\ spc' = "called"
          /\ historical_mappings' = lookup
          /\ vector_results' = vrs
          /\ h_top_k' = k
          /\ embedding' = "unused"
          /\ hybrid' = calculate_hybrid_score(lookup, vrs, k)
          /\ UNCHANGED <<req_embeddings, hi, response, batch_vector_results,
                         vector_results_per_item, suggestions_dict, item_lookup>>
          /\ UNCHANGED <<ingestVars, embedVars, searchVars, buildVars>>

\* calculate_hybrid_score(requirement, top_k=k), lines 135-160: the lookup;
\* generate_embedding, whose exception leaves query_vector None (lines
\* 144-148); search_vectors, whose exception leaves vector_results []
\* (lines 155-158)
H_ScoreSingle ==
    /\ spc = "idle"
    /\ \E lookup \in Lookups, embedded \in BOOLEAN, found \in SearchOutcomes, k \in TopKs :
          /\ spc' = "called"
          /\ historical_mappings' = lookup
          /\ h_top_k' = k
          /\ embedding' = IF ~lookup.ok THEN "unused"
                          ELSE IF embedded THEN "ok" ELSE "failed"
          /\ vector_results' = IF lookup.ok /\ embedded /\ found.ok THEN found.list ELSE <<>>
          /\ hybrid' = calculate_hybrid_score(lookup, vector_results', k)
          /\ UNCHANGED <<req_embeddings, hi, response, batch_vector_results,
                         vector_results_per_item, suggestions_dict, item_lookup>>
          /\ UNCHANGED <<ingestVars, embedVars, searchVars, buildVars>>

\* the chunk of generate_embeddings_batch that carries the p-th text
ChunkOfItem(p) == CeilDiv(p, BATCH_SIZE)

\* A cache file save_cache wrote for one item
NewFile == CacheFile("new", <<<<1, 0>>>>, <<101>>, <<1001>>)

\* The cache file the API found when it started
SuggestFiles == {MissingFile, OldFile, NewFile}

\* The ids line 228 can compute for a line item (line_item.id, or the hash of
\* its description): the request may give any id to any item
ItemIds == 1 .. MaxReq

\* The result list search_vectors_batch gives for the embedding of the p-th
\* item, and the [] of line 175; the pairs of a list are drawn when the
\* ranking reads them
ResultsOf(p) == [query |-> p]
NoResults    == [query |-> 0]

\* routes.py line 161: [e for e in all_embeddings if e is not None], every
\* embedding named by the position of the item it was computed for
RECURSIVE ValidFrom(_, _)
ValidFrom(all, p) ==
    IF p > Len(all) THEN <<>>
    ELSE (IF all[p] = "none" THEN <<>> ELSE <<p>>) \o ValidFrom(all, p + 1)

valid_embeddings(all) == ValidFrom(all, 1)

\* database.py lines 245-252: one result list per query, in query order
BatchResults(valid) == [x \in 1 .. Len(valid) |-> ResultsOf(valid[x])]

\* database.py lines 229-230 and 249: search_vectors_batch raises while
\* _vectors_cache is None, and while _item_skus is None
SnapshotUsable == vectors_cache # <<>> /\ item_skus # <<>>

\* routes.py lines 168-175: the results are handed back to the items, vidx
\* counting the embeddings that are not None
RECURSIVE MapBack(_, _, _)
MapBack(all, results, vidx) ==
    IF all = <<>> THEN <<>>
    ELSE IF Head(all) # "none"
         THEN <<results[vidx + 1]>> \o MapBack(Tail(all), results, vidx + 1)
         ELSE <<NoResults>> \o MapBack(Tail(all), results, vidx)

\* routes.py line 229: suggestions_dict[item_id] = formatted_suggestions; the
\* dict is kept as the sequence of its items in insertion order
DictSet(dict, key, value) ==
    IF \E q \in 1 .. Len(dict) : dict[q].key = key
    THEN [q \in 1 .. Len(dict) |->
             IF dict[q].key = key THEN [key |-> key, item |-> value] ELSE dict[q]]
    ELSE Append(dict, [key |-> key, item |-> value])

\* routes.py lines 203-229: the loop over all_suggestion_lists, the p-th
\* item stored under its id
RECURSIVE StoreAll(_, _, _)
StoreAll(dict, ids, p) ==
    IF p > Len(ids) THEN dict
    ELSE StoreAll(DictSet(dict, ids[p], p), ids, p + 1)

\* get_suggestions_for_items, lines 140-157: n requirements are collected and
\* generate_embeddings_batch is called.  Without OPENAI_API_KEY it raises
\* (matcher.py, lines 61-63), the handler's except (lines 260-262) answers
\* 500; otherwise the items of every failed chunk get None.  Requests are
\* served after the startup of api/main.py lifespan.
R_Embed ==
    /\ spc = "idle"
    /\ apiPhase = "serving"
    /\ \E n \in 0 .. MaxReq, key \in BOOLEAN, failed \in SUBSET (1 .. CeilDiv(MaxReq, BATCH_SIZE)) :
          /\ h_top_k' = SUGGEST_TOP_K
          /\ IF ~key
             THEN /\ spc' = "responded"
                  /\ embedding' = "failed"
                  /\ response' = 500
                  /\ req_embeddings' = req_embeddings
             ELSE /\ spc' = "search"
                  /\ req_embeddings' =
                        [p \in 1 .. n |-> IF ChunkOfItem(p) \in failed THEN "none" ELSE "ok"]
                  /\ UNCHANGED <<embedding, response>>
          /\ UNCHANGED <<historical_mappings, vector_results, hybrid, hi,
                         batch_vector_results, vector_results_per_item,
                         suggestions_dict, item_lookup>>
          /\ UNCHANGED <<ingestVars, embedVars, searchVars, buildVars>>

\* lines 159-176: search_vectors_batch for the embeddings that are not None,
\* if there is any, and the results handed back to the items; an exception of
\* the search (no snapshot, no sku list, a shape that does not fit) ends the
\* request with 500
R_Search(found) ==
    /\ spc = "search"
    /\ LET valid == valid_embeddings(req_embeddings) IN
         /\ found \/ valid # <<>>
         /\ (found /\ valid # <<>>) => SnapshotUsable
         /\ IF found
            THEN /\ spc' = "items"
                 /\ response' = response
                 /\ batch_vector_results' = Gives(BatchResults(valid))
                 /\ vector_results_per_item' =
                        MapBack(req_embeddings, BatchResults(valid), 0)
            ELSE /\ spc' = "responded"
                 /\ response' = 500
                 /\ batch_vector_results' = Raises
                 /\ vector_results_per_item' = vector_results_per_item
    /\ UNCHANGED <<historical_mappings, vector_results, h_top_k, embedding, hybrid,
                   req_embeddings, hi, suggestions_dict, item_lookup>>
    /\ UNCHANGED <<ingestVars, embedVars, searchVars, buildVars>>

\* lines 181-189: get_suggestions for the next item, with the vector results
\* of its entry of vector_results_per_item
R_Item ==
    /\ spc = "items"
    /\ hi < Len(req_embeddings)
    /\ \E lookup \in Lookups, vrs \in SearchLists :
          /\ vector_results_per_item[hi + 1] = NoResults => vrs = <<>>
          /\ spc' = "item_done"
          /\ hi' = hi + 1
          /\ historical_mappings' = lookup
          /\ vector_results' = vrs
          /\ embedding' = IF req_embeddings[hi + 1] = "none" THEN "failed" ELSE "ok"
          /\ hybrid' = get_suggestions(lookup, vrs, SUGGEST_TOP_K)
          /\ UNCHANGED <<h_top_k, req_embeddings, response, batch_vector_results,
                         vector_results_per_item, suggestions_dict, item_lookup>>
          /\ UNCHANGED <<ingestVars, embedVars, searchVars, buildVars>>

\* line 189: the suggestions go to all_suggestion_lists and the loop goes on;
\* the lists collected so far are not kept in the model
R_Next ==
    /\ spc = "item_done"
    /\ spc' = "items"
    /\ historical_mappings' = Lookup(<<>>)
    /\ vector_results' = <<>>
    /\ embedding' = "unused"
    /\ hybrid' = NotCalled
    /\ UNCHANGED <<h_top_k, req_embeddings, hi, response, batch_vector_results,
                   vector_results_per_item, suggestions_dict, item_lookup>>
    /\ UNCHANGED <<ingestVars, embedVars, searchVars, buildVars>>

\* lines 191-262: the item and quote lookups, whose exception ends the
\* request with 500, and the response: every item's suggestions stored
\* under the item's id
R_Respond(fetched) ==
    /\ spc = "items"
    /\ hi = Len(req_embeddings)
    /\ spc' = "responded"
    /\ IF fetched
       THEN \E ids \in [1 .. Len(req_embeddings) -> ItemIds] :
               /\ response' = 200
               /\ suggestions_dict' = StoreAll(<<>>, ids, 1)
       ELSE /\ response' = 500
            /\ suggestions_dict' = suggestions_dict
    /\ UNCHANGED <<historical_mappings, vector_results, h_top_k, embedding, hybrid,
                   req_embeddings, hi, batch_vector_results,
                   vector_results_per_item, item_lookup>>
    /\ UNCHANGED <<ingestVars, embedVars, searchVars, buildVars>>

InitScore ==
    IngestInit /\ EmbedInit /\ SearchIdle /\ BuildIdle /\ ScoreIdle

\* calls of calculate_hybrid_score
NextScore ==
    \/ H_Score
    \/ H_ScoreSingle

SpecScore == InitScore /\ [][NextScore]_vars

InitSuggest ==
    /\ IngestInit /\ EmbedInit /\ SearchIdle /\ BuildGlobalsInit /\ ScoreIdle
    /\ cacheFile \in SuggestFiles

\* the API's startup and a /suggest request
NextSuggest ==
    \/ S_Load(cacheFile)
    \/ R_Embed
    \/ \E found \in BOOLEAN : R_Search(found)
    \/ R_Item
    \/ R_Next
    \/ \E fetched \in BOOLEAN : R_Respond(fetched)

SpecSuggest == InitSuggest /\ [][NextSuggest]_vars

----------------------------------------------------------------------------
(* api/matcher.py get_suggestions with its item lookups *)

\* How the item lookups of one call can go: skipped, every sku found, or the
\* lookup of one result giving None or raising
ItemLookups ==
    {ItemLookup(TRUE, 0, "found"), ItemLookup(FALSE, 0, "found")} \cup
    {ItemLookup(FALSE, p, kind) :
        p \in 1 .. SUGGEST_TOP_K, kind \in {"absent", "raises"}}

\* s without its p-th element
Without(s, p) == SubSeq(s, 1, p - 1) \o SubSeq(s, p + 1, Len(s))

\* get_suggestions, lines 225-257, the body of its try: an exception of
\* calculate_hybrid_score or of get_item_by_sku leaves it; a result whose
\* item is not found is skipped (lines 238-240)
SuggestionsOrRaise(lookup, vrs, k, il) ==
    LET hybrid_results == calculate_hybrid_score(lookup, vrs, k) IN
    IF hybrid_results = Raises THEN Raises
    ELSE IF il.skip \/ il.at = 0 \/ il.at > Len(hybrid_results.value)
         THEN hybrid_results
    ELSE IF il.kind = "raises" THEN Raises
    ELSE Gives(Without(hybrid_results.value, il.at))

\* (mutant of CatchAll: the exception goes on to the caller)
NoCatch(result) == result

\* get_suggestions, lines 259-261: except Exception: return []
CatchAll(result) == IF result = Raises THEN Gives(<<>>) ELSE result

\* get_suggestions(requirement, vector_results=vrs), lines 209-261, with its
\* default top_k = 3 and its item lookups
G_Suggest ==
    /\ spc = "idle"
    /\ \E lookup \in Lookups, vrs \in SearchLists, il \in ItemLookups :
          /\ spc' = "suggested"
          /\ historical_mappings' = lookup
          /\ vector_results' = vrs
          /\ h_top_k' = SUGGEST_TOP_K
          /\ item_lookup' = il
          /\ hybrid' = CatchAll(SuggestionsOrRaise(lookup, vrs, SUGGEST_TOP_K, il))
          /\ UNCHANGED <<embedding, req_embeddings, hi, response,
                         batch_vector_results, vector_results_per_item,
                         suggestions_dict>>
          /\ UNCHANGED <<ingestVars, embedVars, searchVars, buildVars>>

\* calls of get_suggestions
NextGet == G_Suggest

SpecGet == InitScore /\ [][NextGet]_vars

----------------------------------------------------------------------------
(* Claims about the ingestion run (specification Spec) *)

RunEnded    == mainPc = "done"
Terminated  == ~ ENABLED (Main \/ \E b \in Tasks : Worker(b))

\* C1: at the end of every run, whatever happened to the batches, the shared
\* succeeded counter plus the shared failed counter is the number of items
\* fetched.  (The code breaks it: a worker that ends through an exception
\* never adds its items to the counters.)
C1_CountersCoverAllItems ==
    RunEnded => success_counter + failed_counter = Len(items)

\* C2: when all workers have joined, each shared counter is the sum of the
\* per-batch counts the workers computed (returned).  (The code breaks it:
\* the handler of line 250 returns (0, len(batch)) without touching the
\* counters.)
C2_NoIncrementLost ==
    RunEnded =>
        /\ success_counter = SumSeq([b \in 1 .. Len(batches) |-> w[b].ret.success])
        /\ failed_counter  = SumSeq([b \in 1 .. Len(batches) |-> w[b].ret.failed])

C4_BoundedRetry ==
    [][\A b \in Tasks : w[b].pc = "update" /\ w'[b] # w[b] =>
         LET retried  == w'[b].pc = "update" /\ w'[b].idx = w[b].idx
             returned == w'[b].idx = w[b].idx + 1
             failed   == returned /\ w'[b].written = w[b].written
         IN  /\ w[b].attempt < Retries
             /\ retried \/ returned
             /\ retried => /\ w'[b].attempt = w[b].attempt + 1
                           /\ w'[b].attempt < Retries
                           /\ w'[b].lastErr = "locked"
             /\ w[b].attempt = Retries - 1 => returned
             /\ failed => /\ w'[b].failed_count = w[b].failed_count + 1
                          /\ w'[b].success_count = w[b].success_count
                          /\ w'[b].pc = IF w'[b].idx < Len(Batch(b))
                                        THEN "update" ELSE "commit"
                          /\ \A c \in Tasks \ {b} : w'[c] = w[c]
                          /\ UNCHANGED <<mainPc, success_counter, failed_counter>>
      ]_vars

\* a worker whose first item was given up after the last 'locked' attempt and
\* which is now at the last attempt for its second item
C4_Witness ==
    \E b \in Tasks :
        /\ w[b].pc = "update" /\ w[b].idx = 1
        /\ w[b].failed_count = 1 /\ w[b].success_count = 0
        /\ w[b].attempt = Retries - 1 /\ w[b].lastErr = "locked"
        /\ \E c \in Tasks : c # b /\ w[c].pc = "queued"

\* C5: the waits of one update_vector call never exceed the cap, and each is
\* at least twice the one before it until the cap is reached.  (The code
\* breaks it: (attempt + 1) * 0.2 grows by 0.2 s a time.)
C5_ExponentialBackoff ==
    \A b \in Tasks : \A n \in 1 .. Len(w[b].waits) :
        /\ w[b].waits[n] <= MaxWait
        /\ n > 1 => w[b].waits[n] >= Min(2 * w[b].waits[n - 1], MaxWait)

----------------------------------------------------------------------------
(* Claims about generate_embeddings_batch (specification SpecEmbed) *)

RECURSIVE Concat(_)
Concat(ss) == IF ss = <<>> THEN <<>> ELSE Head(ss) \o Concat(Tail(ss))

\* the 1-based positions of texts that request r carried
PositionsOf(r) == {p \in 1 .. Len(texts) : (r - 1) * BATCH_SIZE < p /\ p <= r * BATCH_SIZE}

\* C6: the returned list has exactly len(texts) entries, and entry i is the
\* vector of texts[i] or None, whatever the order of the items in each answer
\* and whichever chunks failed.
C6_AlignedWithInput ==
    epc = "returned" =>
        /\ Len(all_embeddings) = Len(texts)
        /\ \A p \in 1 .. Len(texts) : all_embeddings[p] \in {Emb(texts[p]), None}

\* a returned call of more than one chunk, with a chunk that failed and a chunk
\* of two different texts whose answer came in reversed order
C6_Witness ==
    /\ epc = "returned"
    /\ \E r1, r2 \in 1 .. Len(chunkLog) :
         /\ ~chunkLog[r1].ok
         /\ chunkLog[r2].ok /\ Len(requests[r2]) >= 2
         /\ chunkLog[r2].order[1] > chunkLog[r2].order[2]
         /\ requests[r2][1] # requests[r2][2]

\* C7: the requests carry consecutive chunks of at most BATCH_SIZE texts that
\* together are the input, one request per chunk: after the loop reached
\* position i, ceil(min(i, n) / BATCH_SIZE) requests were made, and a call that
\* returned made ceil(n / BATCH_SIZE), the number logged at line 67.
C7_OneRequestPerChunk ==
    epc \in {"loop", "returned"} =>
        /\ \A r \in 1 .. Len(requests) :
              Len(requests[r]) \in 1 .. BATCH_SIZE
        /\ Concat(requests) = SubSeq(texts, 1, Min(ei, Len(texts)))
        /\ Len(requests) = CeilDiv(Min(ei, Len(texts)), BATCH_SIZE)
        /\ epc = "returned" =>
              /\ Len(requests) = CeilDiv(Len(texts), BATCH_SIZE)
              /\ Len(requests) = num_batches(texts)

\* a returned call whose input is no multiple of BATCH_SIZE, with a failed
\* chunk followed by a chunk that succeeded
C7_Witness ==
    /\ epc = "returned"
    /\ Len(texts) > BATCH_SIZE /\ Len(texts) % BATCH_SIZE # 0
    /\ \E r \in 1 .. Len(chunkLog) - 1 : ~chunkLog[r].ok /\ chunkLog[r + 1].ok

\* C8: a failed chunk leaves None at exactly its own positions, every chunk
\* after it is still requested, and every chunk that succeeded has its
\* vectors at its positions.
C8_FailureConfinedToChunk ==
    epc = "returned" =>
        /\ Len(chunkLog) = CeilDiv(Len(texts), BATCH_SIZE)
        /\ Len(all_embeddings) = Len(texts)
        /\ \A r \in 1 .. Len(chunkLog) : \A p \in PositionsOf(r) :
              IF chunkLog[r].ok THEN all_embeddings[p] = Emb(texts[p])
                                ELSE all_embeddings[p] = None

\* a returned call whose first chunk succeeded, whose second, of two texts,
\* failed and whose third succeeded
C8_Witness ==
    /\ epc = "returned"
    /\ Len(chunkLog) >= 3
    /\ chunkLog[1].ok /\ ~chunkLog[2].ok /\ chunkLog[3].ok
    /\ Len(requests[2]) >= 2

----------------------------------------------------------------------------
(* Claims about the searches (specification SpecSearch) *)

RowOfSku(sku) == CHOOSE r \in 1 .. Len(item_skus[1]) : item_skus[1][r] = sku

\* C9: search_vectors gives at most top_k pairs, each with a similarity
\* larger than the next one's, or equal to it and from a smaller row.  (The
\* code breaks it: reversing an ascending argsort puts the later of two equal
\* rows first in a build whose sort is stable, and a zero vector gives NaN.)
C9_DescendingTiesByRow ==
    \A x \in 1 .. Len(single) : single[x].status = "returned" =>
        LET res == single[x].value IN
        /\ Len(res) <= top_k
        /\ \A p \in 1 .. Len(res) - 1 :
              \/ FloatLess(res[p + 1].score, res[p].score)
              \/ /\ FloatEq(res[p].score, res[p + 1].score)
                 /\ RowOfSku(res[p].sku) < RowOfSku(res[p + 1].sku)

\* C10: for every query x of a request, search_vectors_batch's list for x is,
\* element for element, search_vectors' list for x.  (The code breaks it for
\* a zero vector: 0.0 from the batch search, NaN from the single one.)
C10_BatchEqualsSingle ==
    \A x \in 1 .. Len(single) :
        single[x].status = "returned" /\ batch.status = "returned" =>
            LET one == single[x].value
                many == batch.value[x]
            IN  /\ Len(one) = Len(many)
                /\ \A p \in 1 .. Len(one) :
                      /\ one[p].sku = many[p].sku
                      /\ FloatEq(one[p].score, many[p].score)

\* the similarity a result list reports for a pair is 0.0 when the query or
\* the pair's row is the zero vector, and never NaN
ZeroPairsGiveZero(res, q) ==
    \A p \in 1 .. Len(res) :
        /\ ~res[p].score.nan
        /\ (Norm2(q) = 0 \/ Norm2(vectors_cache[1][RowOfSku(res[p].sku)]) = 0)
              => res[p].score = Num(0, 1)

\* C11: whenever the query or a snapshot row is the zero vector, the
\* similarity reported for the pair is exactly 0.0 and never NaN, from
\* cosine_similarity, search_vectors and search_vectors_batch alike.  (The
\* code breaks it: search_vectors divides by the zero norm.)
C11_ZeroVectorGivesZero ==
    /\ \A x \in 1 .. Len(single) : single[x].status = "returned" =>
          ZeroPairsGiveZero(single[x].value, query_vectors[x])
    /\ batch.status = "returned" =>
          \A x \in 1 .. Len(batch.value) :
              ZeroPairsGiveZero(batch.value[x], query_vectors[x])
    /\ vectors_cache # <<>> =>
          \A x \in 1 .. Len(query_vectors) : \A r \in 1 .. Len(vectors_cache[1]) :
              LET c == cosine_similarity(vectors_cache[1][r], query_vectors[x]) IN
              /\ ~c.nan
              /\ (Norm2(query_vectors[x]) = 0 \/ Norm2(vectors_cache[1][r]) = 0)
                    => c = Num(0, 1)

\* a search_vectors or search_vectors_batch call was made
SearchMade ==
    \/ \E x \in 1 .. Len(single) : single[x].status # "none"
    \/ batch.status # "none"

\* C12: a search reads the embedding matrix and the sku list of one and the
\* same snapshot: either nothing is loaded, or both globals are those of one
\* cache file.  (The code breaks it: the four globals are assigned one by one
\* with no lock and no swap of a single reference, and a load abandoned at
\* line 54 leaves the new matrix beside the sku list from before.)
C12_SearchReadsOneSnapshot ==
    SearchMade =>
        \/ vectors_cache = <<>> /\ item_skus = <<>>
        \/ /\ cacheFile.format = "new"
           /\ vectors_cache = <<cacheFile.vectors>>
           /\ item_skus = <<cacheFile.item_skus>>

----------------------------------------------------------------------------
(* Claims about the rebuild and the load (specification SpecBuild) *)

\* load_vectors_to_memory returned with a snapshot in memory
SuccessfulLoad == loadResult = "returned" /\ vectors_cache # <<>>

\* C13: after every successful load the rows, the sku list and the name list
\* have the same length, and the sku-to-index mapping is a bijection between
\* the snapshot's skus and its row indices (here 1..n for the code's 0..n-1).
\* (The code breaks it: two rows of one sku both enter the lists, and the
\* mapping of line 58 keeps the last row only.)
C13_SnapshotBijection ==
    SuccessfulLoad =>
        LET n   == Len(vectors_cache[1])
            idx == item_sku_to_index[1]
        IN  /\ Len(item_skus[1]) = n
            /\ Len(item_names[1]) = n
            /\ DOMAIN idx = SeqToSet(item_skus[1])
            /\ \A r \in 1 .. n :
                  Cardinality({sku \in DOMAIN idx : idx[sku] = r}) = 1

\* the rows of rs whose blob decodes to an array of dimension 1536
KeptRows(rs) ==
    SelectSeq(rs, LAMBDA row : /\ row.name_vector.decodes
                               /\ row.name_vector.dim = EMBEDDING_DIM)

\* C14: the build keeps exactly the rows whose embedding decodes and has
\* dimension 1536, in source order; it succeeds, writing these rows, when
\* there is at least one, and it ends with an error, the file not written,
\* when there is none.
C14_SkipMalformedKeepValid ==
    LET kept == KeptRows(SubSeq(rows, 1, ri)) IN
    /\ skus_list = [p \in 1 .. Len(kept) |-> kept[p].sku]
    /\ names_list = [p \in 1 .. Len(kept) |-> kept[p].name]
    /\ vectors_list = [p \in 1 .. Len(kept) |-> kept[p].name_vector.vec]
    /\ rebuild = "done" =>
          /\ ri = Len(rows)
          /\ Len(kept) >= 1
          /\ cacheFile = CacheFile("new", vectors_list, skus_list, names_list)
    /\ rebuild = "raised" =>
          /\ KeptRows(rows) = <<>>
          /\ cacheFile.format # "new"
    /\ (rebuild = "loop" /\ ri = Len(rows) /\ KeptRows(rows) # <<>>) =>
          ENABLED B_Finish

\* a finished build that kept the first and the last of three rows and
\* skipped one of another dimension between them
C14_Witness ==
    /\ rebuild = "done"
    /\ Len(rows) = 3
    /\ rows[2].name_vector.decodes /\ rows[2].name_vector.dim # EMBEDDING_DIM
    /\ cacheFile.item_names = <<rows[1].name, rows[3].name>>

\* C15: a load from an absent cache file signals an error to its caller, from
\* load_vectors_to_memory and from load_cache.  (The code breaks it:
\* load_vectors_to_memory logs two warnings and returns at line 43.)
C15_AbsentSourceRaises ==
    cacheFile.format = "missing" =>
        /\ loadResult # "none" => loadResult = "raised"
        /\ loadCacheResult # NotCalled => loadCacheResult = Raises

----------------------------------------------------------------------------
(* Claims about the scoring (specification SpecScore) and the /suggest
   handler (specification SpecSuggest) *)

\* the largest frequency of a non-empty history
LargestFrequency(freqs) ==
    CHOOSE m \in {freqs[p].frequency : p \in 1 .. Len(freqs)} :
        \A p \in 1 .. Len(freqs) : freqs[p].frequency <= m

\* C16: normalize_frequencies keeps the keys and maps each to frequency / max
\* frequency, a value in [0, 1] with the maximum at 1; the empty mapping gives
\* the empty mapping, and a maximum of zero gives 0.0 everywhere with no
\* division by zero.  The historical score of a returned record is that value
\* times HISTORY_WEIGHT.
C16_NormalizedByMax ==
    historical_mappings.ok =>
        LET freqs == historical_mappings.rows
            norm  == normalize_frequencies(freqs)
        IN  /\ Len(norm) = Len(freqs)
            /\ \A p \in 1 .. Len(freqs) :
                  LET m == LargestFrequency(freqs) IN
                  /\ norm[p].sku = freqs[p].sku
                  /\ norm[p].value.d > 0
                  /\ ~RLess(norm[p].value, Zero)
                  /\ ~RLess(Rat(1, 1), norm[p].value)
                  /\ IF m = 0 THEN norm[p].value = Zero
                     ELSE norm[p].value.n * m = freqs[p].frequency * norm[p].value.d
                  /\ (m > 0 /\ freqs[p].frequency = m) => REq(norm[p].value, Rat(1, 1))
                  /\ hybrid.status = "returned" =>
                        \A q \in 1 .. Len(hybrid.value) :
                            hybrid.value[q].sku = freqs[p].sku =>
                                REq(hybrid.value[q].historical_score,
                                    IF m = 0 THEN Zero
                                    ELSE RMul(Rat(freqs[p].frequency, m), Rat(7, 10)))

\* a scoring call that returned for a history with the frequencies 5 and 1
C16_Witness ==
    /\ spc = "called"
    /\ hybrid.status = "returned" /\ Len(hybrid.value) >= 2
    /\ Len(historical_mappings.rows) = 2
    /\ historical_mappings.rows[1].frequency = 1
    /\ historical_mappings.rows[2].frequency = 5

InHistory(sku) ==
    \E q \in 1 .. Len(historical_mappings.rows) : historical_mappings.rows[q].sku = sku
InVectorResults(sku) ==
    \E q \in 1 .. Len(vector_results) : vector_results[q].sku = sku

\* C17: in every result of calculate_hybrid_score a sku the vector results do
\* not have has vector_score 0, a sku the history does not have has
\* historical_score 0, and final_score = historical_score + vector_score.
C17_FinalIsSum ==
    hybrid.status = "returned" =>
        \A p \in 1 .. Len(hybrid.value) :
            LET e == hybrid.value[p] IN
            /\ REq(e.final_score, RAdd(e.historical_score, e.vector_score))
            /\ ~InVectorResults(e.sku) => e.vector_score = Zero
            /\ ~InHistory(e.sku) => e.historical_score = Zero

\* a result with a sku from the history alone, a sku from the vector results
\* alone and a sku from both, each with a positive score
C17_Witness ==
    /\ hybrid.status = "returned"
    /\ \E p1, p2, p3 \in 1 .. Len(hybrid.value) :
         /\ InHistory(hybrid.value[p1].sku) /\ ~InVectorResults(hybrid.value[p1].sku)
         /\ ~InHistory(hybrid.value[p2].sku) /\ InVectorResults(hybrid.value[p2].sku)
         /\ InHistory(hybrid.value[p3].sku) /\ InVectorResults(hybrid.value[p3].sku)
         /\ RLess(Zero, hybrid.value[p1].final_score)
         /\ RLess(Zero, hybrid.value[p3].historical_score)
         /\ RLess(hybrid.value[p3].historical_score, hybrid.value[p3].final_score)

\* the lexical order of the skus
SkuRank(sku) == CASE sku = "SKU-A" -> 1 [] sku = "SKU-B" -> 2 [] sku = "SKU-C" -> 3

\* the result is in descending order of final_score and has
\* min(top_k, candidates) entries
DescendingTruncated ==
    (hybrid.status = "returned" /\ historical_mappings.ok) =>
        LET res   == hybrid.value
            union == {sku \in Skus : InHistory(sku) \/ InVectorResults(sku)}
        IN  /\ Len(res) = Min(h_top_k, Cardinality(union))
            /\ \A p \in 1 .. Len(res) : res[p].sku \in union
            /\ \A p \in 1 .. Len(res) - 1 :
                  ~RLess(res[p].final_score, res[p + 1].final_score)

\* C18: the result is sorted by descending final_score and truncated to
\* top_k, and records of equal final_score are in ascending lexical order of
\* sku.  (The code breaks the second part: the sort is stable and leaves
\* equal scores in the order the history lookup and the vector results
\* brought them.)
C18_SortedTiesBySku ==
    /\ DescendingTruncated
    /\ hybrid.status = "returned" =>
          \A p \in 1 .. Len(hybrid.value) - 1 :
              REq(hybrid.value[p].final_score, hybrid.value[p + 1].final_score) =>
                  SkuRank(hybrid.value[p].sku) < SkuRank(hybrid.value[p + 1].sku)

\* the inputs of the worked example: history {SKU-A: 5, SKU-B: 1} in either
\* order, vector results [(SKU-A, 0.9), (SKU-C, 0.5)], top_k >= 3
WorkedExample ==
    /\ hybrid.status = "returned"
    /\ h_top_k >= 3
    /\ historical_mappings.ok
    /\ SeqToSet(historical_mappings.rows) =
          {[sku |-> "SKU-A", frequency |-> 5], [sku |-> "SKU-B", frequency |-> 1]}
    /\ vector_results = <<[sku |-> "SKU-A", similarity |-> Rat(9, 10)],
                          [sku |-> "SKU-C", similarity |-> Rat(1, 2)]>>

\* C19: for the worked example the result is [SKU-A, SKU-C, SKU-B] with the
\* historical components 0.70 and 0.14, the vector components 0.27 and 0.15
\* and the final scores 0.97, 0.15 and 0.14.
C19_WorkedExampleRanking ==
    WorkedExample =>
        LET res == hybrid.value IN
        /\ Len(res) = 3
        /\ res[1].sku = "SKU-A" /\ res[2].sku = "SKU-C" /\ res[3].sku = "SKU-B"
        /\ REq(res[1].historical_score, Rat(70, 100))
        /\ REq(res[1].vector_score, Rat(27, 100))
        /\ REq(res[1].final_score, Rat(97, 100))
        /\ REq(res[2].historical_score, Zero)
        /\ REq(res[2].vector_score, Rat(15, 100))
        /\ REq(res[2].final_score, Rat(15, 100))
        /\ REq(res[3].historical_score, Rat(14, 100))
        /\ REq(res[3].vector_score, Zero)
        /\ REq(res[3].final_score, Rat(14, 100))

\* the worked example, its history read with SKU-B first
C19_Witness ==
    /\ WorkedExample
    /\ historical_mappings.rows[1].sku = "SKU-B"
    /\ spc = "called"

\* C20: when the embedding for a requirement fails, the requirement still
\* gets a result ranked from its history alone, and the request does not
\* fail.  (The code breaks it in the handler: without OPENAI_API_KEY
\* generate_embeddings_batch raises before its loop and the request ends
\* with status 500.)
C20_EmbeddingFailureFallsBack ==
    embedding = "failed" =>
        /\ response # 500
        /\ (spc # "responded" /\ historical_mappings.ok) =>
              /\ hybrid.status = "returned"
              /\ Len(hybrid.value) = Min(h_top_k, Len(historical_mappings.rows))
              /\ \A p \in 1 .. Len(hybrid.value) :
                    /\ InHistory(hybrid.value[p].sku)
                    /\ hybrid.value[p].vector_score = Zero
                    /\ hybrid.value[p].final_score = hybrid.value[p].historical_score


----------------------------------------------------------------------------
(* More claims about calculate_hybrid_score (specification SpecScore) *)

\* the positions of the vector results that carry the sku
Occurrences(sku) == {q \in 1 .. Len(vector_results) : vector_results[q].sku = sku}

\* the last of them
LastOccurrence(sku) ==
    CHOOSE q \in Occurrences(sku) : \A r \in Occurrences(sku) : r <= q

\* C24: a vector result for a sku that has a record overwrites the record's
\* vector_score with similarity * VECTOR_WEIGHT: the score of a returned
\* record is that of the last vector result for its sku, never a sum over
\* several of them; the record's historical_score and historical_frequency
\* stay what the history gave (0 for a sku the history does not have).
C24_VectorScoreOverwritten ==
    (hybrid.status = "returned" /\ historical_mappings.ok) =>
        \A p \in 1 .. Len(hybrid.value) :
            LET e    == hybrid.value[p]
                hist == historical_mappings.rows
            IN  /\ Occurrences(e.sku) # {} =>
                      LET sim == vector_results[LastOccurrence(e.sku)].similarity IN
                      /\ REq(e.vector_score, RMul(sim, Rat(3, 10)))
                      /\ e.vector_similarity = sim
                /\ \A q \in 1 .. Len(hist) :
                      hist[q].sku = e.sku =>
                          /\ e.historical_frequency = hist[q].frequency
                          /\ REq(e.historical_score,
                                 IF LargestFrequency(hist) = 0 THEN Zero
                                 ELSE RMul(Rat(hist[q].frequency, LargestFrequency(hist)),
                                           Rat(7, 10)))
                /\ ~InHistory(e.sku) =>
                      e.historical_frequency = 0 /\ e.historical_score = Zero

\* a returned record whose sku has a history and two vector results of
\* different similarity
C24_Witness ==
    /\ spc = "called"
    /\ hybrid.status = "returned"
    /\ Len(vector_results) = 2
    /\ vector_results[1].sku = vector_results[2].sku
    /\ vector_results[1].similarity # vector_results[2].similarity
    /\ \E p \in 1 .. Len(hybrid.value) :
          /\ hybrid.value[p].sku = vector_results[1].sku
          /\ hybrid.value[p].historical_frequency > 0

----------------------------------------------------------------------------
(* More claims about the ingestion run (specification Spec) *)

\* main is in, or past, the phase in which the pool works
Dispatching == mainPc \in {"submit", "wait", "summary", "done"} /\ batches # <<>>

\* C23: a run passes through its phases in order: no batch exists before the
\* fetch is over, no worker has started before all batches are formed (the
\* batches together hold every fetched item), and main is at its summary or
\* past it only when every batch was submitted and every worker call has
\* ended.
C23_PhasesInOrder ==
    /\ batches # <<>> =>
          /\ mainPc \in {"submit", "wait", "summary", "done"}
          /\ items # <<>>
    /\ \A b \in Tasks :
          w[b].pc # "queued" =>
              /\ Dispatching
              /\ b <= submitted
              /\ submitted <= Len(batches)
              /\ SumSeq([c \in 1 .. Len(batches) |-> Len(batches[c])]) = Len(items)
    /\ mainPc \in {"summary", "done"} =>
          /\ submitted = Len(batches)
          /\ \A b \in 1 .. Len(batches) : w[b].pc = "done"
          /\ \A b \in Tasks : w[b].pc \in {"queued", "done"}
          /\ lock = 0

\* a run of three batches that reached its summary, one worker having raised
C23_Witness ==
    /\ mainPc = "done"
    /\ Len(batches) = 3
    /\ w[1].ret.kind = "returned"
    /\ w[2].ret.kind = "raised"
    /\ w[3].pc = "done"

\* C25: the batches main builds are a partition of the fetched items: put
\* end to end they are the fetched list (every item in exactly one batch, in
\* fetch order), no batch is empty or longer than BATCH_SIZE, and every batch
\* but the last has exactly BATCH_SIZE items.
C25_BatchesPartitionItems ==
    mainPc \in {"submit", "wait", "summary", "done"} =>
        /\ Concat(batches) = items
        /\ \A b \in 1 .. Len(batches) :
              /\ Len(batches[b]) >= 1
              /\ Len(batches[b]) <= BATCH_SIZE
              /\ b < Len(batches) => Len(batches[b]) = BATCH_SIZE
        /\ \A k \in 1 .. Len(items) :
              Cardinality({<<b, x>> \in (1 .. Len(batches)) \X (1 .. BATCH_SIZE) :
                              x <= Len(batches[b]) /\ batches[b][x] = items[k]}) = 1

\* five items in three batches, the last with one item
C25_Witness ==
    /\ mainPc = "submit"
    /\ Len(items) = 5
    /\ Len(batches) = 3
    /\ Len(batches[3]) = 1

\* the batches whose process_batch_worker call is under way
BeingProcessed == {b \in Tasks : w[b].pc \notin {"queued", "done"}}

\* C26: the pool calls process_batch_worker once for every batch and never
\* twice, at the end of the run every batch has had its call; at most
\* NUM_WORKERS calls are under way at any moment; a call works on the
\* connection it opened itself, which is closed when the call has ended; and
\* a call issues at most one embedding request.
C26_OneCallPerBatch ==
    /\ \A b \in Tasks :
          /\ w[b].calls = (IF w[b].pc = "queued" THEN 0 ELSE 1)
          /\ w[b].posts <= w[b].calls
          /\ b > Len(batches) => w[b].pc = "queued"
          /\ w[b].pc = "queued" => w[b].conn = "none"
          /\ w[b].pc \notin {"queued", "setup", "done"} => w[b].conn = "open"
          /\ w[b].pc = "done" => w[b].conn \in {"closed", "none"}
          /\ (w[b].pc = "done" /\ w[b].conn = "none") => w[b].ret.kind = "raised"
    /\ Cardinality(BeingProcessed) <= NUM_WORKERS
    /\ mainPc \in {"summary", "done"} =>
          \A b \in 1 .. Len(batches) : w[b].calls = 1

\* three batches submitted, NUM_WORKERS of them under way on their own
\* connections after their embedding request, the third waiting
C26_Witness ==
    /\ submitted = 3
    /\ Cardinality(BeingProcessed) = NUM_WORKERS
    /\ \A b \in BeingProcessed : w[b].posts = 1 /\ w[b].conn = "open"
    /\ w[3].pc = "queued"
    /\ mainConn = "open"

\* main has ended (after the summary, the return of a run with nothing to
\* do, or the exception of a failed start: with batches only the first),
\* every call of process_batch_worker has ended, no connection is open and
\* the lock is free
RunOver ==
    /\ mainPc \in {"done", "failed"}
    /\ batches # <<>> => mainPc = "done"
    /\ mainConn # "open"
    /\ \A b \in Tasks : w[b].pc \in {"queued", "done"} /\ w[b].conn # "open"
    /\ \A b \in 1 .. Len(batches) : w[b].pc = "done"
    /\ lock = 0

\* C27: every run ends, whatever the storage and the embedding service
\* answer (a storage locked at every attempt included): update_vector gives
\* up, every worker call ends and closes its connection, and main reaches its
\* summary.
C27_RunTerminates == <>RunOver

\* a run of two batches is over; one update_vector call gave up and another
\* item was stored, the two workers having waited for the lock in turn
C27_Witness ==
    /\ RunOver
    /\ Len(batches) = 2
    /\ success_counter > 0
    /\ failed_counter > 0
    /\ persisted # {}

\* the items of batch b whose vector is committed
PersistedOf(b) == SeqToSet(Batch(b)) \cap persisted

\* C28: when a worker call has ended, every item it counted as succeeded has
\* its vector committed: the call's success count is not larger than the
\* number of its batch's items in the database, and at the end of the run
\* neither is the shared counter.  (The code breaks it: after a commit that
\* failed and was rolled back, lines 216-228, the call goes on to line 240
\* with the success_count of the update_vector calls.)
C28_SucceededMeansPersisted ==
    /\ \A b \in 1 .. Len(batches) :
          (w[b].pc = "done" /\ w[b].ret.kind = "returned") =>
              w[b].ret.success <= Cardinality(PersistedOf(b))
    /\ mainPc = "done" => success_counter <= Cardinality(persisted)

----------------------------------------------------------------------------
(* Claims about a /suggest request and the snapshot (specification
   SpecSuggest) *)

\* the startup found no cache file, or its load raised
NoSnapshotLoaded ==
    apiPhase = "serving" /\ (cacheFile.format = "missing" \/ loadResult = "raised")

\* every requirement of the request got its embedding, and there is one
AllEmbedded ==
    /\ req_embeddings # <<>>
    /\ \A p \in 1 .. Len(req_embeddings) : req_embeddings[p] = "ok"

\* C21: while no usable snapshot is loaded, a request whose embeddings were
\* all generated does not end with an error because of the snapshot: the
\* batch search does not raise into the handler, and every requirement is
\* ranked from its history alone.  (The code breaks it: search_vectors_batch
\* raises RuntimeError while _vectors_cache is None, the TypeError of a None
\* _item_skus after a failed load, and the handler answers 500.)
C21_NoSnapshotServesHistoryOnly ==
    (NoSnapshotLoaded /\ AllEmbedded) =>
        /\ batch_vector_results.status # "raised"
        /\ ~(spc = "responded" /\ response = 500 /\ hi < Len(req_embeddings))
        /\ spc = "item_done" =>
              /\ vector_results = <<>>
              /\ hybrid.status = "returned"

----------------------------------------------------------------------------
(* Claims about get_suggestions (specification SpecGet) *)

\* the ranking of the call at hand, before the item lookups
RankingOfCall ==
    calculate_hybrid_score(historical_mappings, vector_results, h_top_k)

\* the call at hand met a failure: the history lookup raised, or the lookup
\* of the item of one of the ranked results did
CallFailed ==
    \/ ~historical_mappings.ok
    \/ /\ ~item_lookup.skip
       /\ item_lookup.kind = "raises"
       /\ item_lookup.at \in 1 .. Len(RankingOfCall.value)

\* C22: get_suggestions never raises to its caller: it returns a list; the
\* list is empty for a requirement with no history and no vector results,
\* and after any failure of the ranking or of an item lookup.
C22_GetSuggestionsNeverRaises ==
    spc = "suggested" =>
        /\ hybrid.status = "returned"
        /\ (historical_mappings = Lookup(<<>>) /\ vector_results = <<>>) =>
              hybrid.value = <<>>
        /\ CallFailed => hybrid.value = <<>>
        /\ Len(hybrid.value) <= h_top_k

\* a call whose ranking had results and whose item lookup raised
C22_Witness ==
    /\ spc = "suggested"
    /\ historical_mappings.ok
    /\ ~item_lookup.skip
    /\ item_lookup.kind = "raises"
    /\ item_lookup.at = 2
    /\ Len(RankingOfCall.value) = 3
    /\ hybrid = Gives(<<>>)

----------------------------------------------------------------------------
(* More claims about the load of the snapshot (specification SpecSearch) *)

\* the four globals are as the module defines them (lines 22-25): all None
GlobalsUntouched ==
    /\ vectors_cache = <<>>
    /\ item_skus = <<>>
    /\ item_names = <<>>
    /\ item_sku_to_index = <<>>

\* the four globals are those of the cache file
GlobalsOfFile ==
    /\ vectors_cache = <<cacheFile.vectors>>
    /\ item_skus = <<cacheFile.item_skus>>
    /\ item_names = <<cacheFile.item_names>>
    /\ item_sku_to_index = <<SkuToIndex(cacheFile.item_skus)>>

\* C29: a load that fails leaves the four globals as they were before the
\* call (here None, the load being the first): the globals are all replaced
\* by the file's snapshot or all unchanged, and neither get_vectors nor the
\* health check reports vectors while the sku list is missing.  (The code
\* breaks it: line 48 assigns _vectors_cache before line 54 raises for a
\* file in the old format.)
C29_FailedLoadChangesNothing ==
    /\ loadResult = "raised" => GlobalsUntouched
    /\ GlobalsUntouched \/ GlobalsOfFile
    /\ get_vectors.status = "returned" => get_vectors.value.item_skus # <<>>
    /\ health_check.vectors_loaded => item_skus # <<>>

----------------------------------------------------------------------------
(* More claims about a /suggest request (specification SpecSuggest) *)

\* the search step of the request is over and gave its results
ResultsMapped == spc \in {"items", "item_done"} \/ (spc = "responded" /\ hi > 0)

\* the response carries the suggestions of the p-th processed item
InResponse(p) ==
    \E q \in 1 .. Len(suggestions_dict) : suggestions_dict[q].item = p

\* C30: whatever chunks of embeddings failed, the vector results of the i-th
\* processed item are the batch-search results of its own embedding, or
\* the empty list when its embedding is None, and those are what its ranking
\* is given; and every processed item is in the response.  (The code breaks
\* the last part: line 229 stores the suggestions under line_item.id, or
\* under hash(line_item.description) when there is no id, and two items of
\* one key leave one entry.)
C30_OwnResultsAndNoItemDropped ==
    /\ ResultsMapped =>
          /\ Len(vector_results_per_item) = Len(req_embeddings)
          /\ \A i \in 1 .. Len(req_embeddings) :
                vector_results_per_item[i] =
                    IF req_embeddings[i] = "none" THEN NoResults ELSE ResultsOf(i)
    /\ spc = "item_done" =>
          (req_embeddings[hi] = "none" => vector_results = <<>>)
    /\ (spc = "responded" /\ response = 200) =>
          \A p \in 1 .. Len(req_embeddings) : InResponse(p)

=============================================================================
